---- MODULE Spec2Model ----
(***************************************************************************)
(* Verification model of the CIR/CIM compliance engine (cir_system).       *)
(*                                                                         *)
(*   SpecValidator : CIRComplianceValidator.validate (cir_validator.py)    *)
(*   SpecStatus    : ComplianceMatcher._determine_status, as a function    *)
(*   SpecMatcher   : ComplianceMatcher.assess_compliance                   *)
(*   SpecExtractor : AdvancedCIRExtractor.extract_metadata                 *)
(*   SpecRepeat    : extract_metadata repeated on two extractors           *)
(*   SpecPipeline  : CIRCIMAnalysisPipeline.analyze_pair / analyze_batch   *)
(*   SpecAnalyzer  : CIMDocumentAnalyzer.analyze_cim_document              *)
(*   SpecBatch     : CIRBatchProcessor.process_directory                   *)
(*   SpecPool      : assess_compliance called by concurrent workers        *)
(*                                                                         *)
(* Each specification drives one component; the variables of the others    *)
(* keep their initial values.                                              *)
(*                                                                         *)
(* Numbers that are floats in the program are kept as exact rationals      *)
(* [num, den]; comparisons are cross-multiplied.                           *)
(***************************************************************************)
EXTENDS Integers, Sequences, FiniteSets, TLC

VARIABLES
    vpc,                  \* caller of validate: "idle" | "validated"
    cir_doc,              \* the CIRDocument last handed to validate
    validation_results,   \* CIRComplianceValidator.validation_results
    validation            \* cir_doc.compliance: the ComplianceValidation of cir_doc

validatorVars == <<vpc, cir_doc, validation_results, validation>>

VARIABLES
    ds_pc,                \* _determine_status call: "call" | "return"
    ds_evidence_found,    \* argument evidence_found
    ds_expected_evidence, \* argument expected_evidence
    ds_result             \* returned (status, confidence)

statusVars == <<ds_pc, ds_evidence_found, ds_expected_evidence, ds_result>>

VARIABLES
    mpc,                  \* caller of assess_compliance: "idle" | "assessed"
    m_args,               \* arguments of the last assess_compliance call
    evidence_list,        \* ComplianceMatcher.evidence_list
    summary               \* the summary returned by the last assess_compliance

matcherVars == <<mpc, m_args, evidence_list, summary>>

VARIABLES
    epc,                  \* position in extract_metadata: "idle", the pass done last, "returned"
    e_text,               \* argument text, as its lines
    metadata,             \* the CIRMetadata being filled: all_fields, field_sources
    e_self,               \* the AdvancedCIRExtractor the call in progress runs on, 0 if none
    e_runs                \* what the caller has kept of each finished call, in call order

extractorVars == <<epc, e_text, metadata, e_self, e_runs>>

VARIABLES
    ppc,                  \* position in analyze_pair / analyze_batch
    p_args,               \* arguments of the call in progress
    requirement_counter,  \* CIMDocumentAnalyzer.requirement_counter
    analyze_calls,        \* number of analyze_cim_document calls made by the call in progress
    cim_analysis,         \* local cim_analysis
    p_requirements,       \* local cim_requirements
    p_locals,             \* analyze_pair locals: cir_metadata, evidence_list, summary
    cir_files,            \* analyze_batch local cir_files
    idx,                  \* analyze_batch loop index
    batch_results,        \* analyze_batch local results
    pair_result,          \* value returned by analyze_pair
    saved,                \* content of the JSON file written by the call, if any
    trace,                \* stages the pair run has entered, in order
    exc                   \* message of the exception raised in the call, "" if none

pipelineVars == <<ppc, p_args, requirement_counter, analyze_calls, cim_analysis,
                  p_requirements, p_locals, cir_files, idx, batch_results, pair_result,
                  saved, trace, exc>>

VARIABLES
    bpc,                  \* position in process_directory: "idle" | "loop" | "returned"
    pdf_files,            \* process_directory local pdf_files
    bp_idx,               \* process_directory loop index
    bp_results,           \* CIRBatchProcessor.results
    bp_summary,           \* CIRBatchProcessor.summary
    bp_saved,             \* names of the files written to output_dir
    stats_call            \* the last get_summary_statistics call: results and return value

batchVars == <<bpc, pdf_files, bp_idx, bp_results, bp_summary, bp_saved, stats_call>>

VARIABLES
    pool_reqs,            \* the requirement set the workers share
    wk,                   \* per worker: position in assess_compliance and its locals
    lists,                \* the list objects created by "= []", by identity
    self_list,            \* identity of the list the shared matcher's evidence_list is
    pool_results          \* the aggregated outputs, appended under the lock

poolVars == <<pool_reqs, wk, lists, self_list, pool_results>>

vars == <<validatorVars, statusVars, matcherVars, extractorVars, pipelineVars, batchVars,
          poolVars>>

None == "None"

(***************************************************************************)
(* Exact rationals.                                                        *)
(***************************************************************************)
Rat(n, d) == [num |-> n, den |-> d]
RatGeq(r, k) == r.num >= k * r.den
RatLt(r, k) == r.num < k * r.den
RatLeq(r, k) == r.num <= k * r.den

Min(a, b) == IF a <= b THEN a ELSE b
Max(a, b) == IF a >= b THEN a ELSE b

(***************************************************************************)
(* cir_schema.py                                                           *)
(***************************************************************************)
GO == "GO"
NO_GO == "NO-GO"
PENDING_REVIEW == "PENDING_REVIEW"

CRITICAL == "CRITICAL"
HIGH == "HIGH"
MEDIUM == "MEDIUM"

go_score_minimum == 85

\* Python truthiness of an Optional[str] / str value
Truthy(v) == v # None /\ v # ""

\* an Optional[str] whose length matters: None, or the raw and stripped lengths
NoneText == [is_none |-> TRUE, raw_len |-> 0, strip_len |-> 0]
Text(raw, strip) == [is_none |-> FALSE, raw_len |-> raw, strip_len |-> strip]

\* ComplianceValidation default of a fresh CIRDocument
PendingValidation ==
    [status |-> PENDING_REVIEW, score |-> Rat(0, 1), total_checks |-> 0,
     passed_checks |-> 0, failed_checks |-> 0,
     critical_issues |-> <<>>, warnings |-> <<>>,
     validation_rules_applied |-> <<>>]

(***************************************************************************)
(* cir_validator.py                                                        *)
(***************************************************************************)
_get_recommended_action(severity) ==
    IF severity = CRITICAL THEN "MUST be resolved before CIR approval"
    ELSE IF severity = HIGH THEN "Should be resolved before CIR approval"
    ELSE IF severity = MEDIUM THEN "Should be addressed in next revision"
    ELSE "Consider for future improvements"

Digits == <<"0", "1", "2", "3", "4", "5", "6", "7", "8", "9">>

\* str(n) for a natural number
RECURSIVE IntStr(_)
IntStr(n) == IF n < 10 THEN Digits[n + 1] ELSE IntStr(n \div 10) \o Digits[(n % 10) + 1]

\* f"{n:04d}"
Pad4(n) ==
    IF n < 10 THEN "000" \o IntStr(n) ELSE IF n < 100 THEN "00" \o IntStr(n)
    ELSE IF n < 1000 THEN "0" \o IntStr(n) ELSE IntStr(n)

\* self.validation_results.append(ComplianceIssue(...))
_add_issue(results, title, severity, category) ==
    Append(results,
           [issue_id |-> "ISSUE_" \o Pad4(Len(results) + 1),
            severity |-> severity,
            category |-> category,
            affected_section |-> title,
            recommended_action |-> _get_recommended_action(severity)])

Check(name, status) == [check |-> name, status |-> status]

\* one "if <missing>: _add_issue; FAIL else PASS" block: acc = [checks, results]
FailOrPass(acc, missing, name, title, severity, category) ==
    IF missing
    THEN [checks |-> Append(acc.checks, Check(name, "FAIL")),
          results |-> _add_issue(acc.results, title, severity, category)]
    ELSE [checks |-> Append(acc.checks, Check(name, "PASS")),
          results |-> acc.results]

_check_required_fields(doc, results) ==
    LET a0 == [checks |-> <<>>, results |-> results]
        a1 == FailOrPass(a0, ~Truthy(doc.cir_number),
                         "CIR Number Present", "Missing CIR Number", CRITICAL, "Document")
        a2 == FailOrPass(a1, ~Truthy(doc.component_name),
                         "Component Identified", "Missing Component Name", CRITICAL, "Technical Data")
        a3 == FailOrPass(a2, ~Truthy(doc.part_number) /\ ~Truthy(doc.drawing_number),
                         "Part Number Available", "Missing Part/Drawing Number", HIGH, "Technical Data")
        a4 == FailOrPass(a3, ~Truthy(doc.change_type),
                         "Change Type Specified", "Missing Change Type", HIGH, "Change Details")
        a5 == FailOrPass(a4, ~Truthy(doc.reason_for_change),
                         "Change Reason Documented", "Missing Change Reason", HIGH, "Change Details")
        a6 == FailOrPass(a5, ~Truthy(doc.technical_justification),
                         "Technical Justification", "Missing Technical Justification", CRITICAL, "Change Details")
    IN a6

_check_technical_data(doc, results) ==
    LET a0 == [checks |-> <<>>, results |-> results]
        descOk == /\ ~doc.description.is_none
                  /\ doc.description.raw_len > 0
                  /\ doc.description.strip_len > 10
        a1 == FailOrPass(a0, ~descOk,
                         "Component Description", "Insufficient Description", MEDIUM, "Technical Data")
        a2 == FailOrPass(a1, doc.specifications = {},
                         "Specifications Provided", "Missing Specifications", MEDIUM, "Technical Data")
    IN a2

_check_change_details(doc, results) ==
    LET a0 == [checks |-> <<>>, results |-> results]
        a1 == FailOrPass(a0, ~Truthy(doc.implementation_date),
                         "Implementation Date Set", "Missing Implementation Date", HIGH, "Change Details")
        a2 == FailOrPass(a1, ~Truthy(doc.change_owner),
                         "Change Owner Assigned", "Missing Change Owner", HIGH, "Change Details")
        a3 == FailOrPass(a2, doc.affected_areas = <<>>,
                         "Affected Areas Documented", "No Affected Areas Listed", MEDIUM, "Change Details")
    IN a3

key_terms == {"change", "impact", "risk", "verification", "approval"}
approval_keywords == {"approved", "signed", "authorized", "reviewed", "confirmed"}

\* full_text_content is [strip_len, contains]: the length of the stripped text
\* and the set of lower-case keywords that occur in the lower-cased text
\* a documentation group that stops at a short text
_check_documentation_EarlyReturn(doc, results) ==
    LET a0 == [checks |-> <<>>, results |-> results]
        text_length == doc.full_text_content.strip_len
        found_terms == Cardinality(key_terms \cap doc.full_text_content.contains)
        a1 == FailOrPass(a0, ~(text_length > 500),
                         "Documentation Complete", "Insufficient Documentation", MEDIUM, "Documentation")
        a2 == FailOrPass(a1, ~(found_terms >= 3),
                         "Key Documentation Elements", "Missing Key Documentation", MEDIUM, "Documentation")
    IN IF text_length > 500 THEN a2 ELSE a1

_check_documentation(doc, results) ==
    LET a0 == [checks |-> <<>>, results |-> results]
        text_length == doc.full_text_content.strip_len
        found_terms == Cardinality(key_terms \cap doc.full_text_content.contains)
        a1 == FailOrPass(a0, ~(text_length > 500),
                         "Documentation Complete", "Insufficient Documentation", MEDIUM, "Documentation")
        a2 == FailOrPass(a1, ~(found_terms >= 3),
                         "Key Documentation Elements", "Missing Key Documentation", MEDIUM, "Documentation")
    IN a2

\* approval evidence treated as mandatory
_check_approvals_Critical(doc, results) ==
    LET a0 == [checks |-> <<>>, results |-> results]
        has_approval == (approval_keywords \cap doc.full_text_content.contains) # {}
    IN FailOrPass(a0, ~has_approval,
                  "Approval Evidence", "No Approval Evidence Found", CRITICAL, "Approvals")

_check_approvals(doc, results) ==
    LET a0 == [checks |-> <<>>, results |-> results]
        has_approval == (approval_keywords \cap doc.full_text_content.contains) # {}
    IN FailOrPass(a0, ~has_approval,
                  "Approval Evidence", "No Approval Evidence Found", HIGH, "Approvals")

\* a quality check without the warning band
_check_quality_NoWarn(doc, results) ==
    LET a0 == [checks |-> <<>>, results |-> results]
        a1 == IF doc.ocr_confidence >= 80
              THEN [checks |-> Append(a0.checks, Check("Text Extraction Quality", "PASS")),
                    results |-> a0.results]
              ELSE [checks |-> Append(a0.checks, Check("Text Extraction Quality", "FAIL")),
                    results |-> _add_issue(a0.results, "Very Low OCR Confidence", HIGH, "Quality")]
        a2 == FailOrPass(a1, doc.extraction_errors # <<>>,
                         "No Extraction Errors", "Extraction Errors", MEDIUM, "Quality")
    IN a2

_check_quality(doc, results) ==
    LET a0 == [checks |-> <<>>, results |-> results]
        a1 == IF doc.ocr_confidence >= 80
              THEN [checks |-> Append(a0.checks, Check("Text Extraction Quality", "PASS")),
                    results |-> a0.results]
              ELSE IF doc.ocr_confidence >= 60
              THEN [checks |-> Append(a0.checks, Check("Text Extraction Quality", "WARN")),
                    results |-> _add_issue(a0.results, "Low OCR Confidence", MEDIUM, "Quality")]
              ELSE [checks |-> Append(a0.checks, Check("Text Extraction Quality", "FAIL")),
                    results |-> _add_issue(a0.results, "Very Low OCR Confidence", HIGH, "Quality")]
        a2 == FailOrPass(a1, doc.extraction_errors # <<>>,
                         "No Extraction Errors", "Extraction Errors", MEDIUM, "Quality")
    IN a2

validator_determine_status_ScoreOnly(score, critical_issues) ==
    IF RatLt(score, go_score_minimum) THEN NO_GO ELSE GO

validator_determine_status(score, critical_issues) ==
    LET threshold == go_score_minimum
    IN IF critical_issues # <<>> THEN NO_GO
       ELSE IF RatLt(score, threshold) THEN NO_GO
       ELSE GO

PassedCount_CountsWarn(checks_performed) ==
    Len(SelectSeq(checks_performed, LAMBDA c : c.status # "FAIL"))

\* passed = sum(1 for check in checks_performed if check["status"] == "PASS")
PassedCount(checks_performed) ==
    Len(SelectSeq(checks_performed, LAMBDA c : c.status = "PASS"))

\* score = (passed / len(checks_performed) * 100) if checks_performed else 0
ValidatorScore(passed, checks_performed) ==
    IF checks_performed # <<>> THEN Rat(passed * 100, Len(checks_performed))
    ELSE Rat(0, 1)

\* a validator that keeps the issues of the documents validated before
validate_KeepsResults(doc) ==
    LET g1 == _check_required_fields(doc, validation_results)
        g2 == _check_technical_data(doc, g1.results)
        g3 == _check_change_details(doc, g2.results)
        g4 == _check_documentation(doc, g3.results)
        g5 == _check_approvals(doc, g4.results)
        g6 == _check_quality(doc, g5.results)
        checks_performed == g1.checks \o g2.checks \o g3.checks \o g4.checks
                            \o g5.checks \o g6.checks
        results == g6.results
        passed == PassedCount(checks_performed)
        failed == Len(checks_performed) - passed
        score == ValidatorScore(passed, checks_performed)
        critical_issues == SelectSeq(results, LAMBDA i : i.severity = CRITICAL)
        warnings == SelectSeq(results, LAMBDA i : i.severity # CRITICAL)
        status == validator_determine_status(score, critical_issues)
    IN [validation |->
            [status |-> status, score |-> score,
             total_checks |-> Len(checks_performed),
             passed_checks |-> passed, failed_checks |-> failed,
             critical_issues |-> critical_issues, warnings |-> warnings,
             validation_rules_applied |-> checks_performed],
        results |-> results]

\* validate: returns [validation, results]; self.validation_results is reset first
validate(doc) ==
    LET g1 == _check_required_fields(doc, <<>>)
        g2 == _check_technical_data(doc, g1.results)
        g3 == _check_change_details(doc, g2.results)
        g4 == _check_documentation(doc, g3.results)
        g5 == _check_approvals(doc, g4.results)
        g6 == _check_quality(doc, g5.results)
        checks_performed == g1.checks \o g2.checks \o g3.checks \o g4.checks
                            \o g5.checks \o g6.checks
        results == g6.results
        passed == PassedCount(checks_performed)
        failed == Len(checks_performed) - passed
        score == ValidatorScore(passed, checks_performed)
        critical_issues == SelectSeq(results, LAMBDA i : i.severity = CRITICAL)
        warnings == SelectSeq(results, LAMBDA i : i.severity # CRITICAL)
        status == validator_determine_status(score, critical_issues)
    IN [validation |->
            [status |-> status, score |-> score,
             total_checks |-> Len(checks_performed),
             passed_checks |-> passed, failed_checks |-> failed,
             critical_issues |-> critical_issues, warnings |-> warnings,
             validation_rules_applied |-> checks_performed],
        results |-> results]

(***************************************************************************)
(* Documents handed to validate.                                           *)
(***************************************************************************)
MaxErrors == 1

OptStr(s) == {None, s}

TextValues ==
    [strip_len : {500, 501},
     contains : {{"change", "impact"},
                 {"change", "impact", "risk"},
                 {"change", "impact", "approved"},
                 {"change", "risk", "verification", "approval", "signed"}}]

ErrorLists == {[i \in 1..n |-> "error"] : n \in 0..MaxErrors}

\* every combination of the sixteen check outcomes
CoreDocuments ==
    [cir_number : {"", "CIR-1"},
     ocr_confidence : {59, 60, 80},
     component_name : OptStr("Blade"),
     part_number : OptStr("P-1"),
     drawing_number : {None},
     description : {NoneText, Text(11, 11)},
     specifications : {{}, {"material"}},
     change_type : OptStr("Design Change"),
     reason_for_change : OptStr("reason"),
     technical_justification : OptStr("justification"),
     implementation_date : OptStr("2025-01-01"),
     change_owner : OptStr("owner"),
     affected_areas : {<<>>, <<"hub">>},
     full_text_content : TextValues,
     extraction_errors : ErrorLists]

\* the boundary values of the single checks, on an otherwise complete document
BoundaryDocuments ==
    [cir_number : {"", "CIR-1"},
     ocr_confidence : {59, 60, 79, 80, 95},
     component_name : {"Blade"},
     part_number : {None, "", "P-1"},
     drawing_number : {None, "", "D-1"},
     description : {NoneText, Text(0, 0), Text(3, 0), Text(12, 10), Text(11, 11)},
     specifications : {{"material"}},
     change_type : {"Design Change"},
     reason_for_change : {"reason"},
     technical_justification : {"", "justification"},
     implementation_date : {"2025-01-01"},
     change_owner : {"owner"},
     affected_areas : {<<"hub">>},
     full_text_content : {[strip_len |-> 10000,
                           contains |-> key_terms \cup {"approved"}]},
     extraction_errors : {<<>>}]

Documents == CoreDocuments \cup BoundaryDocuments

(***************************************************************************)
(* The validator's caller: a document is built, validated and the verdict  *)
(* stored (cir_doc.compliance = validator.validate(cir_doc)).              *)
(***************************************************************************)
\* create_empty_cir_document
EmptyDocument ==
    [cir_number |-> "", ocr_confidence |-> 0,
     component_name |-> None, part_number |-> None, drawing_number |-> None,
     description |-> NoneText, specifications |-> {},
     change_type |-> None, reason_for_change |-> None,
     technical_justification |-> None, implementation_date |-> None,
     change_owner |-> None, affected_areas |-> <<>>,
     full_text_content |-> [strip_len |-> 0, contains |-> {}],
     extraction_errors |-> <<>>]

InitValidator ==
    /\ vpc = "idle"
    /\ cir_doc = EmptyDocument
    /\ validation_results = <<>>
    /\ validation = PendingValidation

Validate ==
    /\ vpc = "idle"
    /\ vpc' = "validated"
    /\ \E d \in Documents :
        LET r == validate(d)
        IN /\ cir_doc' = d
           /\ validation_results' = r.results
           /\ validation' = r.validation
    /\ UNCHANGED <<statusVars, matcherVars, extractorVars, pipelineVars, batchVars, poolVars>>

\* CIRComplianceValidator.__init__ for the next document (a fresh validator and
\* a fresh create_empty_cir_document)
ValidatorInit ==
    /\ vpc = "validated"
    /\ vpc' = "idle"
    /\ cir_doc' = EmptyDocument
    /\ validation_results' = <<>>
    /\ validation' = PendingValidation
    /\ UNCHANGED <<statusVars, matcherVars, extractorVars, pipelineVars, batchVars, poolVars>>

NextValidator == Validate \/ ValidatorInit

(***************************************************************************)
(* compliance_matcher.py                                                   *)
(***************************************************************************)
MET == "Met"
NOT_MET == "Not Met"
PARTIAL == "Partial"
UNABLE_TO_VERIFY == "Unable to Verify"

NoStatus == [status |-> "", confidence |-> Rat(0, 1)]

\* r >= n/d for a rational r and a decimal threshold n/d
RatGeqFrac(r, n, d) == r.num * d >= n * r.den

matcher_determine_status_StrictPartial(evidence_found, expected_evidence) ==
    IF evidence_found = <<>>
    THEN [status |-> UNABLE_TO_VERIFY, confidence |-> Rat(30, 1)]
    ELSE LET found == Len(evidence_found)
             expected == Max(1, Len(expected_evidence))
             evidence_ratio == Rat(found, expected)
         IN IF RatGeqFrac(evidence_ratio, 9, 10)
            THEN [status |-> MET, confidence |-> Rat(90 + Min(10, found * 5), 1)]
            ELSE IF evidence_ratio.num * 2 > evidence_ratio.den
            THEN [status |-> PARTIAL,
                  confidence |-> Rat(60 * expected + found * 30, expected)]
            ELSE [status |-> NOT_MET, confidence |-> Rat(Min(50, 10 + found * 10), 1)]

\* a Met confidence that grows with every found item
matcher_determine_status_Uncapped(evidence_found, expected_evidence) ==
    IF evidence_found = <<>>
    THEN [status |-> UNABLE_TO_VERIFY, confidence |-> Rat(30, 1)]
    ELSE LET found == Len(evidence_found)
             expected == Max(1, Len(expected_evidence))
             evidence_ratio == Rat(found, expected)
         IN IF RatGeqFrac(evidence_ratio, 9, 10)
            THEN [status |-> MET, confidence |-> Rat(90 + found * 5, 1)]
            ELSE IF RatGeqFrac(evidence_ratio, 5, 10)
            THEN [status |-> PARTIAL,
                  confidence |-> Rat(60 * expected + found * 30, expected)]
            ELSE [status |-> NOT_MET, confidence |-> Rat(Min(50, 10 + found * 10), 1)]

\* _determine_status(req_type, evidence_found, expected_evidence, cir_text):
\* req_type and cir_text are not read
matcher_determine_status(evidence_found, expected_evidence) ==
    IF evidence_found = <<>>
    THEN [status |-> UNABLE_TO_VERIFY, confidence |-> Rat(30, 1)]
    ELSE LET found == Len(evidence_found)
             expected == Max(1, Len(expected_evidence))
             evidence_ratio == Rat(found, expected)
         IN IF RatGeqFrac(evidence_ratio, 9, 10)
            THEN [status |-> MET, confidence |-> Rat(90 + Min(10, found * 5), 1)]
            ELSE IF RatGeqFrac(evidence_ratio, 5, 10)
            THEN [status |-> PARTIAL,
                  confidence |-> Rat(60 * expected + found * 30, expected)]
            ELSE [status |-> NOT_MET, confidence |-> Rat(Min(50, 10 + found * 10), 1)]

(***************************************************************************)
(* SpecStatus: _determine_status applied to lists of every length.         *)
(***************************************************************************)
MaxFound == 12
MaxExpected == 11

ListOfLen(n, x) == [i \in 1..n |-> x]

StatusIdle ==
    /\ ds_pc = "call"
    /\ ds_evidence_found = <<>>
    /\ ds_expected_evidence = <<>>
    /\ ds_result = NoStatus

InitStatus ==
    /\ ds_pc = "call"
    /\ ds_evidence_found \in {ListOfLen(n, "Found: weld") : n \in 0..MaxFound}
    /\ ds_expected_evidence \in {ListOfLen(n, "Report") : n \in 0..MaxExpected}
    /\ ds_result = NoStatus

DetermineStatus ==
    /\ ds_pc = "call"
    /\ ds_pc' = "return"
    /\ ds_result' = matcher_determine_status(ds_evidence_found, ds_expected_evidence)
    /\ UNCHANGED <<ds_evidence_found, ds_expected_evidence, validatorVars, matcherVars,
                   extractorVars, pipelineVars, batchVars, poolVars>>

NextStatus == DetermineStatus

(***************************************************************************)
(* Strings.  A text is carried by what the code asks of it: the set of     *)
(* lower-case strings that occur in its lower-cased form, and the matches   *)
(* of the visual-evidence patterns in it.  Words are TLC strings; lower()   *)
(* and the substring tests between words are tables over the vocabulary.    *)
(***************************************************************************)
Lower ==
    ( "Inspect" :> "inspect" @@ "weld" :> "weld" @@ "seams" :> "seams"
   @@ "of" :> "of" @@ "the" :> "the" @@ "hub" :> "hub"
   @@ "torque" :> "torque" @@ "wrench" :> "wrench"
   @@ "Test" :> "test" @@ "report" :> "report"
   @@ "Document" :> "document" @@ "all" :> "all" @@ "photos" :> "photos"
   @@ "Blade" :> "blade" @@ "Tower" :> "tower" @@ "Gearbox" :> "gearbox"
   @@ "photo" :> "photo" @@ "seam" :> "seam"
   @@ "ultrasonic" :> "ultrasonic" @@ "scan" :> "scan" @@ "values" :> "values"
   @@ "measured" :> "measured" @@ "tighten" :> "tighten" @@ "bolts" :> "bolts"
   @@ "firmly" :> "firmly" @@ "now" :> "now" )

Words == DOMAIN Lower

\* the booster markers that are substrings of a lower-case word
MarkersIn(w) ==
    CASE w = "test" -> {"test"}
      [] w = "document" -> {"document"}
      [] w = "photos" -> {"photo"}
      [] w = "photo" -> {"photo"}
      [] OTHER -> {}

\* marker in requirement_desc.lower(), the description being its word list
DescHas(desc, marker) ==
    \E i \in DOMAIN desc : marker \in MarkersIn(Lower[desc[i]])

EmptyCirText == [contains |-> {}, raw_contains |-> {}, visual_evidence |-> <<>>]

\* the text "Photos attached: IMG_1.jpg"
PhotosAttachedText ==
    [contains |-> {"photo", "photos", "attached"}, raw_contains |-> {},
     visual_evidence |-> <<"Photos attached">>]

CirTexts ==
    { EmptyCirText,
      [contains |-> {"weld"}, raw_contains |-> {}, visual_evidence |-> <<>>],
      [contains |-> {"inspect", "weld", "seam", "seams", "test", "report", "test report"},
       raw_contains |-> {}, visual_evidence |-> <<>>],
      [contains |-> {"inspect", "weld", "seam", "seams", "photo", "photos", "document",
                     "log", "record"},
       raw_contains |-> {"[PHOTO]"}, visual_evidence |-> <<"[PHOTO 1]", "photos attached">>],
      PhotosAttachedText }

\* _search_evidence: the keyword hits, in description order
RECURSIVE KeywordHits(_, _)
KeywordHits(desc, text) ==
    IF desc = <<>> THEN <<>>
    ELSE LET word == Head(desc)
             keyword == Lower[word]
             hit == IF Len(word) > 3 /\ keyword \in text.contains
                    THEN <<"Found: " \o keyword>> ELSE <<>>
         IN hit \o KeywordHits(Tail(desc), text)

_search_evidence(requirement_desc, cir_text) ==
    LET e1 == KeywordHits(requirement_desc, cir_text)
        e2 == IF /\ DescHas(requirement_desc, "test")
                 /\ {"test report", "test results", "test data"} \cap cir_text.contains # {}
              THEN Append(e1, "Test documentation found") ELSE e1
        e3 == IF /\ DescHas(requirement_desc, "document")
                 /\ {"document", "record", "report", "log"} \cap cir_text.contains # {}
              THEN Append(e2, "Documentation found") ELSE e2
        e4 == IF /\ (DescHas(requirement_desc, "photo") \/ DescHas(requirement_desc, "image"))
                 /\ \/ "photo" \in cir_text.contains
                    \/ "image" \in cir_text.contains
                    \/ "[PHOTO]" \in cir_text.raw_contains
              THEN Append(e3, "Photo/Image reference found") ELSE e3
    IN e4

_generate_assessment_comment(status, evidence_found, expected_evidence) ==
    [kind |-> status, found |-> Len(evidence_found),
     expected |-> Len(expected_evidence),
     missing |-> IF status = PARTIAL
                 THEN Len(expected_evidence) - Len(evidence_found) ELSE 0]

_find_visual_evidence(cir_text) == cir_text.visual_evidence

_assess_requirement(requirement, cir_text) ==
    LET evidence_found == _search_evidence(requirement.description, cir_text)
        sc == matcher_determine_status(evidence_found, requirement.evidence_needed)
    IN [requirement_id |-> requirement.requirement_id,
        requirement_title |-> requirement.title,
        status |-> sc.status,
        evidence_found |-> evidence_found,
        expected_evidence |-> requirement.evidence_needed,
        comments |-> _generate_assessment_comment(sc.status, evidence_found,
                                                  requirement.evidence_needed),
        visual_evidence |-> _find_visual_evidence(cir_text),
        confidence_score |-> sc.confidence]

(***************************************************************************)
(* Values of metadata fields are strings or lists of strings.              *)
(***************************************************************************)
StrValue(s) == [kind |-> "str", s |-> s, items |-> <<>>]
ListValue(xs) == [kind |-> "list", s |-> "", items |-> xs]

RECURSIVE JoinRepr(_)
JoinRepr(items) ==
    IF items = <<>> THEN ""
    ELSE "'" \o Head(items) \o "'" \o (IF Len(items) > 1 THEN ", " ELSE "")
             \o JoinRepr(Tail(items))

\* str(value)
PyStr(v) == IF v.kind = "str" THEN v.s ELSE "[" \o JoinRepr(v.items) \o "]"

\* bool(value)
ValueTruthy(v) == IF v.kind = "str" THEN v.s # "" ELSE v.items # <<>>

\* the declared component names that occur in the lower-cased "Component Type"
ComponentsIn ==
    ( "" :> {} @@ "Rotor Blade LM43" :> {"rotor", "blade"} @@ "Gearbox" :> {"gearbox"} )

\* cir_metadata.get("Component Type", ""): metadata maps field names to values
MetaGet(meta, name, default) == IF name \in DOMAIN meta THEN meta[name] ELSE default

\* a filter that wants every declared component in the component type
_filter_applicable_requirements_All(requirements, cir_metadata, cim_metadata) ==
    LET cir_component == PyStr(MetaGet(cir_metadata, "Component Type", StrValue("")))
        cim_components == [i \in DOMAIN cim_metadata.affected_components |->
                              Lower[cim_metadata.affected_components[i]]]
        applies == \A i \in DOMAIN cim_components :
                          cim_components[i] \in ComponentsIn[cir_component]
    IN SelectSeq(requirements, LAMBDA req : applies)

_filter_applicable_requirements(requirements, cir_metadata, cim_metadata) ==
    LET cir_component == PyStr(MetaGet(cir_metadata, "Component Type", StrValue("")))
        cim_components == [i \in DOMAIN cim_metadata.affected_components |->
                              Lower[cim_metadata.affected_components[i]]]
        applies == \/ cim_components = <<>>
                   \/ \E i \in DOMAIN cim_components :
                          cim_components[i] \in ComponentsIn[cir_component]
    IN SelectSeq(requirements, LAMBDA req : applies)

CountStatus(list, status) == Len(SelectSeq(list, LAMBDA e : e.status = status))

SummaryScore_MetOnly(met, partial, total) ==
    IF total > 0 THEN Rat(2 * met * 100, 2 * Max(1, total)) ELSE Rat(0, 1)

\* compliance_score = (met + partial * 0.5) / max(1, total) * 100 if total > 0 else 0
SummaryScore(met, partial, total) ==
    IF total > 0 THEN Rat((2 * met + partial) * 100, 2 * Max(1, total)) ELSE Rat(0, 1)

_generate_summary(list) ==
    LET total == Len(list)
        met == CountStatus(list, MET)
        partial == CountStatus(list, PARTIAL)
        not_met == CountStatus(list, NOT_MET)
        unable == CountStatus(list, UNABLE_TO_VERIFY)
        compliance_score == SummaryScore(met, partial, total)
        go_nogo == IF RatGeq(compliance_score, 85) /\ not_met = 0 THEN "GO" ELSE "NO-GO"
    IN [total_requirements |-> total, met |-> met, partial |-> partial,
        not_met |-> not_met, unable_to_verify |-> unable,
        compliance_score |-> compliance_score, go_nogo |-> go_nogo]

\* assess_compliance: returns [evidence_list, summary]
assess_compliance(cir_text, cir_metadata, cim_requirements, cim_metadata) ==
    LET applicable == _filter_applicable_requirements(cim_requirements, cir_metadata,
                                                      cim_metadata)
        list == [i \in DOMAIN applicable |-> _assess_requirement(applicable[i], cir_text)]
    IN [evidence_list |-> list, summary |-> _generate_summary(list)]

(***************************************************************************)
(* Inputs of assess_compliance.                                            *)
(***************************************************************************)
MaxReqs == 7

Requirement(id, description, evidence_needed) ==
    [requirement_id |-> id, title |-> "Requirement", description |-> description,
     evidence_needed |-> evidence_needed]

\* descriptions with 3, 2, 0 and 2(+1 booster) keywords found in a full text
ReqDescriptions ==
    << <<"Inspect", "weld", "seams">>,
       <<"weld", "seams", "of", "the", "hub">>,
       <<"torque", "wrench">>,
       <<"Document", "all", "photos">> >>

ThreeKinds == <<"Report", "Record", "Signature">>

\* a requirement list: a copies of the first description, b of the second, ...
BlockList(a, b, c, d) ==
    [i \in 1..(a + b + c + d) |->
        Requirement(i,
                    ReqDescriptions[IF i <= a THEN 1
                                    ELSE IF i <= a + b THEN 2
                                    ELSE IF i <= a + b + c THEN 3 ELSE 4],
                    IF i <= a + b + c THEN ThreeKinds ELSE <<>>)]

RequirementLists ==
    {BlockList(a, b, c, d) : a \in 0..MaxReqs, b \in 0..2, c \in 0..2, d \in 0..1}

NoCirMetadata == [n \in {} |-> StrValue("")]

CirMetadatas ==
    {NoCirMetadata} \cup {[n \in {"Component Type"} |-> StrValue(v)] : v \in DOMAIN ComponentsIn}

CimMetadatas == {[affected_components |-> c] : c \in {<<>>, <<"Blade">>, <<"Tower", "Gearbox">>}}

NoArgs == [cir_text |-> EmptyCirText, cir_metadata |-> NoCirMetadata,
           cim_requirements |-> <<>>, cim_metadata |-> [affected_components |-> <<>>]]

MatcherIdle ==
    /\ mpc = "idle"
    /\ m_args = NoArgs
    /\ evidence_list = <<>>
    /\ summary = [total_requirements |-> 0, met |-> 0, partial |-> 0, not_met |-> 0,
                  unable_to_verify |-> 0, compliance_score |-> Rat(0, 1),
                  go_nogo |-> "NO-GO"]

AssessCompliance ==
    /\ mpc = "idle"
    /\ mpc' = "assessed"
    /\ \E t \in CirTexts, cm \in CirMetadatas, rs \in RequirementLists, mm \in CimMetadatas :
        LET r == assess_compliance(t, cm, rs, mm)
        IN /\ m_args' = [cir_text |-> t, cir_metadata |-> cm,
                         cim_requirements |-> rs, cim_metadata |-> mm]
           /\ evidence_list' = r.evidence_list
           /\ summary' = r.summary
    /\ UNCHANGED <<validatorVars, statusVars, extractorVars, pipelineVars, batchVars, poolVars>>

\* ComplianceMatcher.__init__: a fresh matcher for the next call
MatcherInit ==
    /\ mpc = "assessed"
    /\ mpc' = "idle"
    /\ m_args' = NoArgs
    /\ evidence_list' = <<>>
    /\ summary' = [total_requirements |-> 0, met |-> 0, partial |-> 0, not_met |-> 0,
                   unable_to_verify |-> 0, compliance_score |-> Rat(0, 1),
                   go_nogo |-> "NO-GO"]
    /\ UNCHANGED <<validatorVars, statusVars, extractorVars, pipelineVars, batchVars, poolVars>>

(***************************************************************************)
(* cir_advanced_extractor.py.  A text is the sequence of its lines.  The   *)
(* lines come from a catalogue; what each regular expression captures on   *)
(* a catalogue line is tabulated below (no expression of the extractor     *)
(* matches across two catalogue lines).                                    *)
(***************************************************************************)
CirLines ==
    << "CIR: ABC-123", "CIR ID: ABC-123", "Case: XY-9", "Status: open", "Status: closed",
       "Observations: crack seen", "- item one", "- item two", "1. first step",
       "Inspection 12/05/2024", "Serial: SN-77", "Serial-Number: X-1",
       "Component: Rotor Blade LM43", "The hub is worn" >>

\* self.patterns, in dict order: field name and number of patterns
PatternFieldNames ==
    << "CIR ID", "Report Type", "Service Report Number", "Reason for Service",
       "Turbine ID", "WTG ID", "Turbine Type", "MK Version", "Country", "Site Name",
       "Component Type", "Manufacturer", "Field Observations", "Service Date",
       "Technician", "Status" >>

PatternCount ==
    ( "CIR ID" :> 3 @@ "Report Type" :> 3 @@ "Service Report Number" :> 3
   @@ "Reason for Service" :> 3 @@ "Turbine ID" :> 4 @@ "WTG ID" :> 2
   @@ "Turbine Type" :> 3 @@ "MK Version" :> 3 @@ "Country" :> 2 @@ "Site Name" :> 3
   @@ "Component Type" :> 3 @@ "Manufacturer" :> 3 @@ "Field Observations" :> 3
   @@ "Service Date" :> 2 @@ "Technician" :> 3 @@ "Status" :> 3 )

\* re.search(self.patterns[field][i], line): the stripped last group, or None
PatternMatch(field, i, line) ==
    CASE field = "CIR ID" /\ i = 1 /\ line = "CIR: ABC-123" -> "ABC-123"
      [] field = "CIR ID" /\ i = 1 /\ line = "CIR ID: ABC-123" -> "ID"
      [] field = "CIR ID" /\ i = 3 /\ line = "Case: XY-9" -> "XY-9"
      [] field = "Status" /\ i = 1 /\ line = "Status: open" -> "open"
      [] field = "Status" /\ i = 1 /\ line = "Status: closed" -> "closed"
      [] field = "Field Observations" /\ i = 1 /\ line = "Observations: crack seen"
            -> "crack seen"
      [] field = "Component Type" /\ i = 1 /\ line = "Component: Rotor Blade LM43"
            -> "Rotor Blade LM43"
      [] OTHER -> None

\* the key:value expression on a line: <<group(1).strip(), group(2).strip()>>
KvMatch ==
    ( "CIR: ABC-123" :> <<"CIR", "ABC-123">>
   @@ "CIR ID: ABC-123" :> <<"CIR", "ID: ABC-123">>
   @@ "Case: XY-9" :> <<"Case", "XY-9">>
   @@ "Status: open" :> <<"Status", "open">>
   @@ "Status: closed" :> <<"Status", "closed">>
   @@ "Observations: crack seen" :> <<"Observations", "crack seen">>
   @@ "- item one" :> <<"-", "item one">>
   @@ "- item two" :> <<"-", "item two">>
   @@ "1. first step" :> <<"first", "step">>
   @@ "Inspection 12/05/2024" :> <<"Inspection", "12/05/2024">>
   @@ "Serial: SN-77" :> <<"Serial", "SN-77">>
   @@ "Serial-Number: X-1" :> <<"Serial-Number", "X-1">>
   @@ "Component: Rotor Blade LM43" :> <<"Component", "Rotor Blade LM43">>
   @@ "The hub is worn" :> <<"The", "hub is worn">> )

\* key.startswith(('The', 'This', 'That', 'These')), on the keys of the catalogue
StartsWithThe(key) == key \in {"The"}

\* _normalize_key: [:-_] to spaces, each word capitalize()d
_normalize_key ==
    ( "CIR" :> "Cir" @@ "Case" :> "Case" @@ "Status" :> "Status"
   @@ "Observations" :> "Observations" @@ "-" :> "" @@ "first" :> "First"
   @@ "Inspection" :> "Inspection" @@ "Serial" :> "Serial"
   @@ "Serial-Number" :> "Serial Number" @@ "Component" :> "Component"
   @@ "The" :> "The" )

\* matches of the bullet and of the numbered-list expression on a line
LineBullets(line) ==
    CASE line = "- item one" -> <<"item one">>
      [] line = "- item two" -> <<"item two">>
      [] OTHER -> <<>>

LineNumbered(line) == IF line = "1. first step" THEN <<"first step">> ELSE <<>>

NumericFieldNames ==
    <<"Serial Number", "Part Number", "Lot Number", "Test Result Value",
      "Hours of Operation">>

\* re.search(numeric_patterns[field], line): group(1), or None
NumericMatch(field, line) ==
    IF field = "Serial Number" /\ line = "Serial: SN-77" THEN "SN-77" ELSE None

\* matches of date_pattern on a line
LineDates(line) == IF line = "Inspection 12/05/2024" THEN <<"12/05/2024">> ELSE <<>>

\* a dict as the sequence of its <<key, value>> items, in insertion order
RECURSIVE DictSet(_, _, _)
DictSet(d, k, v) ==
    IF d = <<>> THEN << <<k, v>> >>
    ELSE IF Head(d)[1] = k THEN << <<k, v>> >> \o Tail(d)
    ELSE <<Head(d)>> \o DictSet(Tail(d), k, v)

DictHas(d, k) == \E i \in DOMAIN d : d[i][1] = k

Put(f, k, v) == [x \in (DOMAIN f) \cup {k} |-> IF x = k THEN v ELSE f[x]]

EmptyMetadata == [all_fields |-> [n \in {} |-> StrValue("")],
                  field_sources |-> [n \in {} |-> ""]]

\* CIRMetadata.add_field; values held by the catalogue carry no outer blanks,
\* so str(value).strip() is empty only for the empty string
add_field(md, name, value, source) ==
    IF ValueTruthy(value) /\ PyStr(value) # ""
    THEN [all_fields |-> Put(md.all_fields, name, value),
          field_sources |-> Put(md.field_sources, name, source)]
    ELSE md

\* first line of the text on which pattern i of the field matches, 0 if none
FirstMatchLine(text, field, i) ==
    IF \E k \in DOMAIN text : PatternMatch(field, i, text[k]) # None
    THEN CHOOSE k \in DOMAIN text :
            /\ PatternMatch(field, i, text[k]) # None
            /\ \A j \in 1..(k - 1) : PatternMatch(field, i, text[j]) = None
    ELSE 0

\* _extract_field(text, self.patterns[field]): first pattern that matches anywhere
_extract_field(text, field) ==
    IF \E i \in 1..PatternCount[field] : FirstMatchLine(text, field, i) # 0
    THEN LET i == CHOOSE p \in 1..PatternCount[field] :
                     /\ FirstMatchLine(text, field, p) # 0
                     /\ \A q \in 1..(p - 1) : FirstMatchLine(text, field, q) = 0
         IN PatternMatch(field, i, text[FirstMatchLine(text, field, i)])
    ELSE None

\* _extract_key_value_pairs: later lines overwrite earlier ones with the same key
RECURSIVE KvPairs(_, _)
KvPairs(text, pairs) ==
    IF text = <<>> THEN pairs
    ELSE LET key == KvMatch[Head(text)][1]
             value == KvMatch[Head(text)][2]
             keep == /\ Len(key) > 2 /\ Len(key) < 100
                     /\ Len(value) > 2 /\ Len(value) < 200
                     /\ ~StartsWithThe(key)
         IN KvPairs(Tail(text),
                    IF keep THEN DictSet(pairs, _normalize_key[key], StrValue(value))
                    ELSE pairs)

_extract_key_value_pairs(text) == KvPairs(text, <<>>)

RECURSIVE Flatten(_)
Flatten(ss) == IF ss = <<>> THEN <<>> ELSE Head(ss) \o Flatten(Tail(ss))

FirstN(s, n) == SubSeq(s, 1, Min(n, Len(s)))

_extract_lists(text) ==
    LET bullets == Flatten([k \in DOMAIN text |-> LineBullets(text[k])])
        numbered == Flatten([k \in DOMAIN text |-> LineNumbered(text[k])])
        l1 == IF bullets # <<>> /\ Len(bullets) > 1
              THEN << <<"Observations", ListValue(FirstN(bullets, 10))>> >> ELSE <<>>
        l2 == IF numbered # <<>>
              THEN << <<"Steps/Items", ListValue(FirstN(numbered, 10))>> >> ELSE <<>>
    IN l1 \o l2

NumericFirst(text, field) ==
    IF \E k \in DOMAIN text : NumericMatch(field, text[k]) # None
    THEN NumericMatch(field, text[CHOOSE k \in DOMAIN text :
                                     /\ NumericMatch(field, text[k]) # None
                                     /\ \A j \in 1..(k - 1) :
                                            NumericMatch(field, text[j]) = None])
    ELSE None

RECURSIVE NumericFrom(_, _)
NumericFrom(text, names) ==
    IF names = <<>> THEN <<>>
    ELSE (IF NumericFirst(text, Head(names)) # None
          THEN << <<Head(names), StrValue(NumericFirst(text, Head(names)))>> >>
          ELSE <<>>) \o NumericFrom(text, Tail(names))

_extract_numeric_fields(text) == NumericFrom(text, NumericFieldNames)

_extract_dates(text) ==
    LET found == Flatten([k \in DOMAIN text |-> LineDates(text[k])])
    IN [k \in DOMAIN found |-> <<"Date " \o IntStr(k), StrValue(found[k])>>]

(***************************************************************************)
(* The five passes of extract_metadata, each over the items of its dict.   *)
(***************************************************************************)
PatternSource_Default == "extracted"

PatternSource == "pattern_matching"

RECURSIVE PatternPass(_, _, _)
PatternPass(text, names, md) ==
    IF names = <<>> THEN md
    ELSE LET value == _extract_field(text, Head(names))
         IN PatternPass(text, Tail(names),
                        IF Truthy(value)
                        THEN add_field(md, Head(names), StrValue(value), PatternSource)
                        ELSE md)

\* for field, value in items: if field not in metadata.all_fields: add_field(...)
RECURSIVE GuardedPass(_, _, _)
GuardedPass(items, md, source) ==
    IF items = <<>> THEN md
    ELSE GuardedPass(Tail(items),
                     IF Head(items)[1] \notin DOMAIN md.all_fields
                     THEN add_field(md, Head(items)[1], Head(items)[2], source)
                     ELSE md,
                     source)

RECURSIVE ListPass(_, _)
ListPass(items, md) ==
    IF items = <<>> THEN md
    ELSE ListPass(Tail(items),
                  IF ValueTruthy(Head(items)[2])
                  THEN add_field(md, Head(items)[1], Head(items)[2], "list_extraction")
                  ELSE md)

RECURSIVE DatePass(_, _)
DatePass(items, md) ==
    IF items = <<>> THEN md
    ELSE DatePass(Tail(items),
                  add_field(md, Head(items)[1], Head(items)[2], "date_extraction"))

extract_metadata(text) ==
    LET m1 == PatternPass(text, PatternFieldNames, EmptyMetadata)
        m2 == GuardedPass(_extract_key_value_pairs(text), m1, "key_value_extraction")
        m3 == ListPass(_extract_lists(text), m2)
        m4 == GuardedPass(_extract_numeric_fields(text), m3, "numeric_extraction")
    IN DatePass(_extract_dates(text), m4)

MaxLines == 3

RECURSIVE SeqsUpTo(_, _)
SeqsUpTo(S, n) ==
    IF n = 0 THEN {<<>>}
    ELSE LET shorter == SeqsUpTo(S, n - 1)
         IN shorter \cup {Append(s, x) : s \in shorter, x \in S}

CirLineTexts == SeqsUpTo({CirLines[i] : i \in DOMAIN CirLines}, MaxLines)

ExtractorIdle ==
    /\ epc = "idle"
    /\ e_text = <<>>
    /\ metadata = EmptyMetadata
    /\ e_self = 0
    /\ e_runs = <<>>

\* extract_metadata is entered: metadata = CIRMetadata(), then the pattern pass
ExtractPatterns ==
    /\ epc = "idle"
    /\ \E t \in CirLineTexts :
        /\ e_text' = t
        /\ metadata' = PatternPass(t, PatternFieldNames, EmptyMetadata)
    /\ epc' = "patterns"
    /\ UNCHANGED <<e_self, e_runs>>
    /\ UNCHANGED <<validatorVars, statusVars, matcherVars, pipelineVars, batchVars, poolVars>>

ExtractKeyValues ==
    /\ epc = "patterns"
    /\ metadata' = GuardedPass(_extract_key_value_pairs(e_text), metadata,
                               "key_value_extraction")
    /\ epc' = "key_values"
    /\ UNCHANGED <<e_text, e_self, e_runs>>
    /\ UNCHANGED <<validatorVars, statusVars, matcherVars, pipelineVars, batchVars, poolVars>>

ExtractLists ==
    /\ epc = "key_values"
    /\ metadata' = ListPass(_extract_lists(e_text), metadata)
    /\ epc' = "lists"
    /\ UNCHANGED <<e_text, e_self, e_runs>>
    /\ UNCHANGED <<validatorVars, statusVars, matcherVars, pipelineVars, batchVars, poolVars>>

ExtractNumeric ==
    /\ epc = "lists"
    /\ metadata' = GuardedPass(_extract_numeric_fields(e_text), metadata,
                               "numeric_extraction")
    /\ epc' = "numeric"
    /\ UNCHANGED <<e_text, e_self, e_runs>>
    /\ UNCHANGED <<validatorVars, statusVars, matcherVars, pipelineVars, batchVars, poolVars>>

\* the date pass, and the return of metadata
ExtractDates ==
    /\ epc = "numeric"
    /\ metadata' = DatePass(_extract_dates(e_text), metadata)
    /\ epc' = "returned"
    /\ UNCHANGED <<e_text, e_self, e_runs>>
    /\ UNCHANGED <<validatorVars, statusVars, matcherVars, pipelineVars, batchVars, poolVars>>

\* the caller takes the result; the next call starts from a new CIRMetadata
ExtractorNextCall ==
    /\ epc = "returned"
    /\ epc' = "idle"
    /\ e_text' = <<>>
    /\ metadata' = EmptyMetadata
    /\ UNCHANGED <<e_self, e_runs>>
    /\ UNCHANGED <<validatorVars, statusVars, matcherVars, pipelineVars, batchVars, poolVars>>

NextExtractor ==
    \/ ExtractPatterns
    \/ ExtractKeyValues
    \/ ExtractLists
    \/ ExtractNumeric
    \/ ExtractDates
    \/ ExtractorNextCall

(***************************************************************************)
(* extract_metadata called again and again, on either of two               *)
(* AdvancedCIRExtractor objects; the caller keeps every returned map.      *)
(* __init__ sets self.patterns and nothing else, and no method assigns to  *)
(* a field of self: an extractor is told from the other by its identity.   *)
(***************************************************************************)
Extractors == {1, 2}

MaxRuns == 3

RepeatTexts ==
    { <<>>,
      <<"CIR: ABC-123", "Status: open">>,
      <<"Observations: crack seen", "- item one", "- item two">>,
      <<"Inspection 12/05/2024", "Serial: SN-77">> }

\* a CIRMetadata that outlives the call: the pattern pass fills the map left
\* by the call before
ExtractOn_KeptMetadata ==
    /\ epc = "idle"
    /\ Len(e_runs) < MaxRuns
    /\ \E x \in Extractors, t \in RepeatTexts :
        /\ e_self' = x
        /\ e_text' = t
        /\ metadata' = PatternPass(t, PatternFieldNames, metadata)
    /\ epc' = "patterns"
    /\ UNCHANGED e_runs
    /\ UNCHANGED <<validatorVars, statusVars, matcherVars, pipelineVars, batchVars, poolVars>>

\* extractor.extract_metadata(text) is entered: metadata = CIRMetadata(), then
\* the pattern pass over self.patterns
ExtractOn ==
    /\ epc = "idle"
    /\ Len(e_runs) < MaxRuns
    /\ \E x \in Extractors, t \in RepeatTexts :
        /\ e_self' = x
        /\ e_text' = t
        /\ metadata' = PatternPass(t, PatternFieldNames, EmptyMetadata)
    /\ epc' = "patterns"
    /\ UNCHANGED e_runs
    /\ UNCHANGED <<validatorVars, statusVars, matcherVars, pipelineVars, batchVars, poolVars>>

\* the caller keeps the returned CIRMetadata and is ready for the next call
ExtractorKeep ==
    /\ epc = "returned"
    /\ e_self # 0
    /\ epc' = "idle"
    /\ e_runs' = Append(e_runs, [self |-> e_self, text |-> e_text,
                                 all_fields |-> metadata.all_fields,
                                 field_sources |-> metadata.field_sources])
    /\ UNCHANGED <<e_text, metadata, e_self>>
    /\ UNCHANGED <<validatorVars, statusVars, matcherVars, pipelineVars, batchVars, poolVars>>

NextRepeat ==
    \/ ExtractOn
    \/ ExtractKeyValues
    \/ ExtractLists
    \/ ExtractNumeric
    \/ ExtractDates
    \/ ExtractorKeep

(***************************************************************************)
(* cim_analyzer.py.  A CIM text is the sequence of its lines, from a       *)
(* catalogue; the captures of the analyzer's expressions on a catalogue    *)
(* line are tabulated (none of them matches across two catalogue lines).   *)
(***************************************************************************)
CimLines ==
    << "Notes", "General notes on turbine service",
       "Test method: ultrasonic scan of weld", "Document all torque values measured",
       "Visual inspection: weld seams of the hub", "Step 1: tighten the bolts firmly now",
       "Step 2: torque", "CIM-1042 blade component cracking" >>

\* _extract_case_id: the value returned for a match of pattern i on the line, or None
CasePatternMatch(i, line) ==
    IF i = 1 /\ line = "CIM-1042 blade component cracking" THEN "1042" ELSE None

_extract_case_id(text) ==
    LET hits == Flatten([i \in 1..3 |->
                    Flatten([k \in DOMAIN text |->
                        IF CasePatternMatch(i, text[k]) # None
                        THEN <<CasePatternMatch(i, text[k])>> ELSE <<>>])])
    IN IF hits # <<>> THEN hits[1] ELSE "CIM-UNKNOWN"

\* catalogue lines carry no outer blanks: line.strip() is the line
_extract_title(text) ==
    LET first20 == SubSeq(text, 1, Min(20, Len(text)))
        fits == SelectSeq(first20, LAMBDA line : Len(line) > 10 /\ Len(line) < 200)
    IN IF fits # <<>> THEN fits[1] ELSE "CIM Case Summary"

LineComponents(line) ==
    IF line = "CIM-1042 blade component cracking" THEN {"Blade"} ELSE {}

_extract_affected_components(text) == UNION {LineComponents(text[k]) : k \in DOMAIN text}

LineFailureTypes(line) ==
    IF line = "CIM-1042 blade component cracking" THEN {"Cracking"} ELSE {}

_extract_failure_types(text) == UNION {LineFailureTypes(text[k]) : k \in DOMAIN text}

\* f"{n:03d}"
Pad3(n) ==
    IF n < 10 THEN "00" \o IntStr(n) ELSE IF n < 100 THEN "0" \o IntStr(n) ELSE IntStr(n)

Categories == <<"TEST", "DOC", "VIS", "PROC">>

CategoryPatterns == ("TEST" :> 3 @@ "DOC" :> 3 @@ "VIS" :> 3 @@ "PROC" :> 1)

\* finditer of pattern i of the category on a line: the captured descriptions
\* (stripped where the code strips), with the step number for a procedure step
CategoryMatch(cat, i, line) ==
    CASE cat = "TEST" /\ i = 1 /\ line = "Test method: ultrasonic scan of weld"
            -> << [desc |-> "ultrasonic scan of weld", step |-> ""] >>
      [] cat = "DOC" /\ i = 1 /\ line = "Document all torque values measured"
            -> << [desc |-> "torque values measured", step |-> ""] >>
      [] cat = "VIS" /\ i = 1 /\ line = "Visual inspection: weld seams of the hub"
            -> << [desc |-> "weld seams of the hub", step |-> ""] >>
      [] cat = "VIS" /\ i = 1 /\ line = "Visual inspection: photo of the weld seam"
            -> << [desc |-> "photo of the weld seam", step |-> ""] >>
      [] cat = "PROC" /\ i = 1 /\ line = "Step 1: tighten the bolts firmly now"
            -> << [desc |-> "tighten the bolts firmly now", step |-> "1"] >>
      [] cat = "PROC" /\ i = 1 /\ line = "Step 2: torque"
            -> << [desc |-> "torque", step |-> "2"] >>
      [] OTHER -> <<>>

\* the matches of a category that become requirements, in the order of the loops
CategoryMatches(text, cat) ==
    LET all == Flatten([i \in 1..CategoryPatterns[cat] |->
                   Flatten([k \in DOMAIN text |-> CategoryMatch(cat, i, text[k])])])
    IN SelectSeq(all, LAMBDA m : cat \in {"DOC", "PROC"} => Len(m.desc) > 10)

\* documentation requirements that expect two kinds of evidence
ComplianceRequirement_TwoKinds(cat, n, m, source) ==
    [requirement_id |-> cat \o "-" \o Pad3(n),
     title |-> CASE cat = "TEST" -> "Test Method"
                 [] cat = "DOC" -> "Documentation"
                 [] cat = "VIS" -> "Visual Inspection"
                 [] cat = "PROC" -> "Procedure Step " \o m.step,
     description |-> m.desc,
     requirement_type |-> CASE cat = "TEST" -> "Test Method"
                            [] cat = "DOC" -> "Documentation"
                            [] cat = "VIS" -> "Visual Inspection"
                            [] cat = "PROC" -> "Procedure",
     applicable_components |-> <<>>,
     acceptance_criteria |-> CASE cat = "TEST" -> "Test performed per specification"
                               [] cat = "DOC" -> "Documentation complete and accurate"
                               [] cat = "VIS" -> "Visual inspection passed"
                               [] cat = "PROC" -> "Step completed as specified",
     evidence_needed |-> CASE cat = "TEST" -> <<"Test report", "Test data",
                                                "Technician signature">>
                           [] cat = "DOC" -> <<"Document", "Report">>
                           [] cat = "VIS" -> <<"Photo", "Screenshot", "Visual evidence">>
                           [] cat = "PROC" -> <<"Completion log", "Signature", "Timestamp">>,
     source_document |-> source,
     severity |-> IF cat = "VIS" THEN "MEDIUM" ELSE "HIGH"]

ComplianceRequirement(cat, n, m, source) ==
    [requirement_id |-> cat \o "-" \o Pad3(n),
     title |-> CASE cat = "TEST" -> "Test Method"
                 [] cat = "DOC" -> "Documentation"
                 [] cat = "VIS" -> "Visual Inspection"
                 [] cat = "PROC" -> "Procedure Step " \o m.step,
     description |-> m.desc,
     requirement_type |-> CASE cat = "TEST" -> "Test Method"
                            [] cat = "DOC" -> "Documentation"
                            [] cat = "VIS" -> "Visual Inspection"
                            [] cat = "PROC" -> "Procedure",
     applicable_components |-> <<>>,
     acceptance_criteria |-> CASE cat = "TEST" -> "Test performed per specification"
                               [] cat = "DOC" -> "Documentation complete and accurate"
                               [] cat = "VIS" -> "Visual inspection passed"
                               [] cat = "PROC" -> "Step completed as specified",
     evidence_needed |-> CASE cat = "TEST" -> <<"Test report", "Test data",
                                                "Technician signature">>
                           [] cat = "DOC" -> <<"Document", "Report", "Record">>
                           [] cat = "VIS" -> <<"Photo", "Screenshot", "Visual evidence">>
                           [] cat = "PROC" -> <<"Completion log", "Signature", "Timestamp">>,
     source_document |-> source,
     severity |-> IF cat = "VIS" THEN "MEDIUM" ELSE "HIGH"]

\* numbering that starts again for each category
RECURSIVE ExtractRequirements_PerCategory(_, _, _, _)
ExtractRequirements_PerCategory(text, cats, counter, source) ==
    IF cats = <<>> THEN <<>>
    ELSE LET ms == CategoryMatches(text, Head(cats))
         IN [k \in DOMAIN ms |->
                ComplianceRequirement(Head(cats), counter + k, ms[k], source)]
            \o ExtractRequirements_PerCategory(text, Tail(cats), counter, source)

\* the requirements of the categories cats, numbered by _next_id from counter + 1
RECURSIVE ExtractRequirements(_, _, _, _)
ExtractRequirements(text, cats, counter, source) ==
    IF cats = <<>> THEN <<>>
    ELSE LET ms == CategoryMatches(text, Head(cats))
         IN [k \in DOMAIN ms |->
                ComplianceRequirement(Head(cats), counter + k, ms[k], source)]
            \o ExtractRequirements(text, Tail(cats), counter + Len(ms), source)

NoDict == [n \in {} |-> ""]

\* analyze_cim_document(text): the CIMAnalysis; no catalogue line yields work
\* instructions, test procedures, acceptance standards, visual criteria or
\* documentation keywords
analyze_cim_document(text, counter) ==
    [cim_case_id |-> _extract_case_id(text),
     cim_title |-> _extract_title(text),
     affected_components |-> _extract_affected_components(text),
     failure_types |-> _extract_failure_types(text),
     requirements |-> ExtractRequirements(text, Categories, counter, "CIM Document"),
     work_instructions |-> NoDict,
     test_procedures |-> NoDict,
     acceptance_standards |-> NoDict,
     visual_inspection_criteria |-> {},
     documentation_requirements |-> {}]

(***************************************************************************)
(* cir_cim_pipeline.py                                                     *)
(***************************************************************************)
\* getattr(obj, name) raises AttributeError when the object has no such attribute
HasAttr(obj, name) == name \in DOMAIN obj

AttributeError(class, name) ==
    "'" \o class \o "' object has no attribute '" \o name \o "'"

Raised(message) == [raised |-> TRUE, message |-> message]
Returned(value) == [raised |-> FALSE, message |-> "", value |-> value]

\* first name of the sequence that is no attribute of the object, None if all are
FirstMissing(obj, names) ==
    LET missing == SelectSeq(names, LAMBDA n : ~HasAttr(obj, n))
    IN IF missing = <<>> THEN None ELSE missing[1]

\* the attributes read from req, in the order of the dict display
RequirementAttrs ==
    <<"id", "title", "requirement_type", "description", "severity",
      "applicable_components", "expected_evidence">>

\* cim_requirements = [{"id": req.id, ...} for req in cim_analysis.requirements]
RequirementDicts(requirements) ==
    IF requirements = <<>> THEN Returned(<<>>)
    ELSE IF FirstMissing(requirements[1], RequirementAttrs) # None
    THEN Raised(AttributeError("ComplianceRequirement",
                               FirstMissing(requirements[1], RequirementAttrs)))
    ELSE Returned([k \in DOMAIN requirements |->
                     [id |-> requirements[k].id,
                      title |-> requirements[k].title,
                      type |-> requirements[k].requirement_type,
                      description |-> requirements[k].description,
                      severity |-> requirements[k].severity,
                      components |-> requirements[k].applicable_components,
                      expected_evidence |-> requirements[k].expected_evidence]])

RECURSIVE SetToSeq(_)
SetToSeq(S) ==
    IF S = {} THEN <<>> ELSE LET x == CHOOSE y \in S : TRUE IN <<x>> \o SetToSeq(S \ {x})

\* cim_analysis.__dict__, as far as the matcher reads it
AnalysisDict(analysis) == [affected_components |-> SetToSeq(analysis.affected_components)]

\* the attributes _assess_requirement reads from a requirement, in order
AssessAttrs ==
    <<"requirement_id", "title", "requirement_type", "description", "evidence_needed">>

\* self.compliance_matcher.assess_compliance(...) up to the end of the loop over
\* the applicable requirements: the evidence list, or the exception
MatchRequirements(doc, all_fields, requirements, analysis) ==
    LET applicable == _filter_applicable_requirements(requirements, all_fields,
                                                      AnalysisDict(analysis))
    IN IF applicable = <<>> THEN Returned(<<>>)
       ELSE IF FirstMissing(applicable[1], AssessAttrs) # None
       THEN Raised(AttributeError("dict", FirstMissing(applicable[1], AssessAttrs)))
       ELSE Returned([k \in DOMAIN applicable |->
                        _assess_requirement(applicable[k], doc)])

\* _extract_pdf_text: the text of the file, "" when it cannot be read
_extract_pdf_text(file) == file.doc

\* an evidence document: its lines for the extractor, and what the matcher asks
\* of its text
CirDocuments ==
    { [lines |-> <<>>, contains |-> {}, raw_contains |-> {}, visual_evidence |-> <<>>],
      [lines |-> <<"CIR: ABC-123", "Component: Rotor Blade LM43", "Status: open">>,
       contains |-> {}, raw_contains |-> {}, visual_evidence |-> <<>>],
      [lines |-> <<"Observations: crack seen", "- item one", "- item two",
                   "Inspection 12/05/2024">>,
       contains |-> {"inspect"}, raw_contains |-> {}, visual_evidence |-> <<>>] }

MaxCimLines == 2
MaxFiles == 2

CimTexts == SeqsUpTo({CimLines[i] : i \in DOMAIN CimLines}, MaxCimLines)

\* a file: str(path), Path(path).stem and its text
File(dir, stem, doc) == [path |-> dir \o stem \o ".pdf", stem |-> stem, doc |-> doc]

\* a directory of evidence files, named by position
Directories ==
    { [k \in DOMAIN ds |-> File("cirs/", "cir_" \o IntStr(k), ds[k])]
        : ds \in SeqsUpTo(CirDocuments, MaxFiles) }

NoResult == [n \in {} |-> ""]
NoAnalysis == [n \in {} |-> ""]
NoLocals == [cir_metadata |-> EmptyMetadata, evidence_list |-> <<>>,
             summary |-> _generate_summary(<<>>)]
\* identifiers issued by one analyzer before the caller builds a new one
MaxCounter == 4

NoCall == [mode |-> "none"]

\* CIRCIMAnalysisPipeline.__init__: new analyzer, extractor and matcher
PipelineIdle ==
    /\ ppc = "idle"
    /\ p_args = NoCall
    /\ requirement_counter = 0
    /\ analyze_calls = 0
    /\ cim_analysis = NoAnalysis
    /\ p_requirements = <<>>
    /\ p_locals = NoLocals
    /\ cir_files = <<>>
    /\ idx = 0
    /\ batch_results = <<>>
    /\ pair_result = NoResult
    /\ saved = NoResult
    /\ trace = <<>>
    /\ exc = ""

\* except Exception as e: return {"error": str(e), "cir_path": ..., "cim_path": ...}
PairErrorResult_NoMessage(e, args) ==
    [error |-> "", cir_path |-> args.cir.path, cim_path |-> args.cim.path]

PairErrorResult(e, args) ==
    [error |-> e, cir_path |-> args.cir.path, cim_path |-> args.cim.path]

\* the call analyze_pair(cir_pdf_path, cim_pdf_path, output_json)
AnalyzePair ==
    /\ ppc = "idle"
    /\ \E d \in CirDocuments, t \in CimTexts, oj \in BOOLEAN :
        p_args' = [mode |-> "pair", cir |-> File("", "cir", d), cim |-> File("", "cim", t),
                   output_json |-> oj]
    /\ ppc' = "Start"
    /\ trace' = <<"Start">>
    /\ UNCHANGED <<requirement_counter, analyze_calls, cim_analysis, p_requirements,
                   p_locals, cir_files, idx, batch_results, pair_result, exc>>
    /\ UNCHANGED saved
    /\ UNCHANGED <<validatorVars, statusVars, matcherVars, extractorVars, batchVars, poolVars>>

\* Step 1 of analyze_pair
PairExtractRequirements ==
    /\ ppc = "Start"
    /\ LET cim_text == _extract_pdf_text(p_args.cim)
           analysis == analyze_cim_document(cim_text, requirement_counter)
           dicts == RequirementDicts(analysis.requirements)
       IN /\ analyze_calls' = analyze_calls + 1
          /\ requirement_counter' = requirement_counter + Len(analysis.requirements)
          /\ cim_analysis' = analysis
          /\ IF dicts.raised
             THEN /\ exc' = dicts.message
                  /\ pair_result' = PairErrorResult(dicts.message, p_args)
                  /\ ppc' = "returned"
                  /\ trace' = Append(trace, "error")
                  /\ UNCHANGED p_requirements
             ELSE /\ p_requirements' = dicts.value
                  /\ ppc' = "RequirementsExtracted"
                  /\ trace' = Append(trace, "RequirementsExtracted")
                  /\ UNCHANGED <<exc, pair_result>>
    /\ UNCHANGED <<p_args, p_locals, cir_files, idx, batch_results>>
    /\ UNCHANGED saved
    /\ UNCHANGED <<validatorVars, statusVars, matcherVars, extractorVars, batchVars, poolVars>>

\* Step 2 of analyze_pair
PairExtractEvidence ==
    /\ ppc = "RequirementsExtracted"
    /\ LET cir_text == _extract_pdf_text(p_args.cir)
       IN p_locals' = [p_locals EXCEPT !.cir_metadata = extract_metadata(cir_text.lines)]
    /\ ppc' = "EvidenceExtracted"
    /\ trace' = Append(trace, "EvidenceExtracted")
    /\ UNCHANGED <<p_args, requirement_counter, analyze_calls, cim_analysis,
                   p_requirements, cir_files, idx, batch_results, pair_result, exc>>
    /\ UNCHANGED saved
    /\ UNCHANGED <<validatorVars, statusVars, matcherVars, extractorVars, batchVars, poolVars>>

\* Step 3 of analyze_pair, the matcher's loop over the applicable requirements
PairMatch ==
    /\ ppc = "EvidenceExtracted"
    /\ LET m == MatchRequirements(_extract_pdf_text(p_args.cir),
                                  p_locals.cir_metadata.all_fields,
                                  p_requirements, cim_analysis)
       IN IF m.raised
          THEN /\ exc' = m.message
               /\ pair_result' = PairErrorResult(m.message, p_args)
               /\ ppc' = "returned"
               /\ trace' = Append(trace, "error")
               /\ UNCHANGED p_locals
          ELSE /\ p_locals' = [p_locals EXCEPT !.evidence_list = m.value]
               /\ ppc' = "Matched"
               /\ trace' = Append(trace, "Matched")
               /\ UNCHANGED <<exc, pair_result>>
    /\ UNCHANGED <<p_args, requirement_counter, analyze_calls, cim_analysis,
                   p_requirements, cir_files, idx, batch_results>>
    /\ UNCHANGED saved
    /\ UNCHANGED <<validatorVars, statusVars, matcherVars, extractorVars, batchVars, poolVars>>

\* Step 3 of analyze_pair, the matcher's summary
PairScore ==
    /\ ppc = "Matched"
    /\ p_locals' = [p_locals EXCEPT !.summary = _generate_summary(p_locals.evidence_list)]
    /\ ppc' = "Scored"
    /\ trace' = Append(trace, "Scored")
    /\ UNCHANGED <<p_args, requirement_counter, analyze_calls, cim_analysis,
                   p_requirements, cir_files, idx, batch_results, pair_result, saved, exc>>
    /\ UNCHANGED <<validatorVars, statusVars, matcherVars, extractorVars, batchVars, poolVars>>

\* the attributes of cim_analysis read by the results display, in order
ResultAttrs == <<"case_id", "affected_components", "failure_modes">>

\* Step 4 of analyze_pair: the results, saved when output_json, and the return
PairResults ==
    /\ ppc = "Scored"
    /\ LET missing == FirstMissing(cim_analysis, ResultAttrs)
           summary_ == p_locals.summary
           message == AttributeError("CIMAnalysis", missing)
           built == [cir_path |-> p_args.cir.path,
                     cim_path |-> p_args.cim.path,
                     cir_metadata |-> p_locals.cir_metadata.all_fields,
                     cir_metadata_sources |-> p_locals.cir_metadata.field_sources,
                     cim_case_id |-> cim_analysis.case_id,
                     cim_affected_components |-> cim_analysis.affected_components,
                     cim_failure_modes |-> cim_analysis.failure_modes,
                     cim_requirements |-> p_requirements,
                     compliance_evidence |-> p_locals.evidence_list,
                     compliance_summary |-> summary_,
                     go_nogo |-> summary_.go_nogo,
                     compliance_score |-> summary_.compliance_score,
                     output_file |-> IF p_args.output_json
                                     THEN "analysis/" \o p_args.cir.stem \o "_analysis.json"
                                     ELSE ""]
       IN IF missing # None
          THEN /\ exc' = message
               /\ pair_result' = PairErrorResult(message, p_args)
               /\ trace' = Append(trace, "error")
               /\ UNCHANGED saved
          ELSE /\ pair_result' = built
               /\ saved' = IF p_args.output_json THEN built ELSE saved
               /\ trace' = Append(trace, "Done")
               /\ UNCHANGED exc
    /\ ppc' = "returned"
    /\ UNCHANGED <<p_args, requirement_counter, analyze_calls, cim_analysis,
                   p_requirements, p_locals, cir_files, idx, batch_results>>
    /\ UNCHANGED <<validatorVars, statusVars, matcherVars, extractorVars, batchVars, poolVars>>

\* the call analyze_batch(cir_pdf_dir, cim_pdf_path, output_json, max_files);
\* max_files = 0 stands for None as well: both skip the truncation
AnalyzeBatch ==
    /\ ppc = "idle"
    /\ \E dir \in Directories, t \in CimTexts, mf \in 0..MaxFiles, oj \in BOOLEAN :
        p_args' = [mode |-> "batch", dir |-> dir, cim |-> File("", "cim", t),
                   max_files |-> mf, output_json |-> oj]
    /\ ppc' = "batch_start"
    /\ UNCHANGED <<requirement_counter, analyze_calls, cim_analysis, p_requirements,
                   p_locals, cir_files, idx, batch_results, pair_result, trace, exc>>
    /\ UNCHANGED saved
    /\ UNCHANGED <<validatorVars, statusVars, matcherVars, extractorVars, batchVars, poolVars>>

\* analyze_batch up to the loop: the CIM analysis, outside any try, and cir_files
BatchExtractRequirements ==
    /\ ppc = "batch_start"
    /\ LET cim_text == _extract_pdf_text(p_args.cim)
           analysis == analyze_cim_document(cim_text, requirement_counter)
           dicts == RequirementDicts(analysis.requirements)
           files == p_args.dir
       IN /\ analyze_calls' = analyze_calls + 1
          /\ requirement_counter' = requirement_counter + Len(analysis.requirements)
          /\ cim_analysis' = analysis
          /\ IF dicts.raised
             THEN /\ exc' = dicts.message
                  /\ ppc' = "raised"
                  /\ UNCHANGED <<p_requirements, cir_files, idx, batch_results>>
             ELSE /\ p_requirements' = dicts.value
                  /\ cir_files' = IF p_args.max_files # 0
                                  THEN FirstN(files, p_args.max_files) ELSE files
                  /\ idx' = 1
                  /\ batch_results' = <<>>
                  /\ ppc' = "batch_loop"
                  /\ UNCHANGED exc
    /\ UNCHANGED <<p_args, p_locals, pair_result, trace>>
    /\ UNCHANGED saved
    /\ UNCHANGED <<validatorVars, statusVars, matcherVars, extractorVars, batchVars, poolVars>>

\* the result entry of one evidence file, or its error entry
BatchEntry(file, requirements, analysis) ==
    LET cir_text == _extract_pdf_text(file)
        cir_metadata == extract_metadata(cir_text.lines)
        m == MatchRequirements(cir_text, cir_metadata.all_fields, requirements, analysis)
        summary_ == _generate_summary(m.value)
    IN IF m.raised
       THEN [cir_file |-> file.path, error |-> m.message]
       ELSE [cir_file |-> file.path,
             cir_name |-> file.stem,
             cir_metadata |-> cir_metadata.all_fields,
             go_nogo |-> summary_.go_nogo,
             compliance_score |-> summary_.compliance_score,
             met_requirements |-> summary_.met,
             partial_requirements |-> summary_.partial,
             not_met_requirements |-> summary_.not_met,
             total_requirements |-> summary_.total_requirements,
             compliance_evidence |->
                 [k \in DOMAIN m.value |->
                     [requirement_id |-> m.value[k].requirement_id,
                      status |-> m.value[k].status,
                      confidence_score |-> m.value[k].confidence_score]]]

\* one iteration of the loop over cir_files
BatchProcessFile ==
    /\ ppc = "batch_loop"
    /\ idx <= Len(cir_files)
    /\ batch_results' = Append(batch_results, BatchEntry(cir_files[idx], p_requirements, cim_analysis))
    /\ idx' = idx + 1
    /\ UNCHANGED <<ppc, p_args, requirement_counter, analyze_calls, cim_analysis,
                   p_requirements, p_locals, cir_files, pair_result, trace, exc>>
    /\ UNCHANGED saved
    /\ UNCHANGED <<validatorVars, statusVars, matcherVars, extractorVars, batchVars, poolVars>>

\* the loop is over: the results are saved and returned
BatchReturn ==
    /\ ppc = "batch_loop"
    /\ idx > Len(cir_files)
    /\ saved' = IF p_args.output_json
                THEN [total_files |-> Len(cir_files), results |-> batch_results,
                      cim_reference |-> p_args.cim.path]
                ELSE saved
    /\ ppc' = "returned"
    /\ UNCHANGED <<p_args, requirement_counter, analyze_calls, cim_analysis,
                   p_requirements, p_locals, cir_files, idx, batch_results, pair_result,
                   trace, exc>>
    /\ UNCHANGED <<validatorVars, statusVars, matcherVars, extractorVars, batchVars, poolVars>>

\* the caller has the result, or the exception; the next call is made on a new
\* CIRCIMAnalysisPipeline
PipelineInit ==
    /\ ppc \in {"returned", "raised"}
    /\ ppc' = "idle"
    /\ p_args' = NoCall
    /\ requirement_counter' = 0
    /\ analyze_calls' = 0
    /\ cim_analysis' = NoAnalysis
    /\ p_requirements' = <<>>
    /\ p_locals' = NoLocals
    /\ cir_files' = <<>>
    /\ idx' = 0
    /\ batch_results' = <<>>
    /\ pair_result' = NoResult
    /\ saved' = NoResult
    /\ trace' = <<>>
    /\ exc' = ""
    /\ UNCHANGED <<validatorVars, statusVars, matcherVars, extractorVars, batchVars, poolVars>>

\* the caller's next call on the same pipeline: the locals of the finished call
\* are gone, the analyzer keeps its requirement_counter
PipelineNextCall ==
    /\ ppc \in {"returned", "raised"}
    /\ requirement_counter > 0
    /\ requirement_counter < MaxCounter
    /\ ppc' = "idle"
    /\ p_args' = NoCall
    /\ analyze_calls' = 0
    /\ cim_analysis' = NoAnalysis
    /\ p_requirements' = <<>>
    /\ p_locals' = NoLocals
    /\ cir_files' = <<>>
    /\ idx' = 0
    /\ batch_results' = <<>>
    /\ pair_result' = NoResult
    /\ saved' = NoResult
    /\ trace' = <<>>
    /\ exc' = ""
    /\ UNCHANGED requirement_counter
    /\ UNCHANGED <<validatorVars, statusVars, matcherVars, extractorVars, batchVars, poolVars>>

NextPipeline ==
    \/ AnalyzePair
    \/ PairExtractRequirements
    \/ PairExtractEvidence
    \/ PairMatch
    \/ PairScore
    \/ PairResults
    \/ AnalyzeBatch
    \/ BatchExtractRequirements
    \/ BatchProcessFile
    \/ BatchReturn
    \/ PipelineInit
    \/ PipelineNextCall

(***************************************************************************)
(* The matcher on the requirements of a CIM analysis: the caller analyzes  *)
(* the requirements text and hands analysis.requirements and the analysis  *)
(* to assess_compliance.                                                   *)
(***************************************************************************)
PhotoCimLine == "Visual inspection: photo of the weld seam"

AnalyzedCimTexts ==
    { <<PhotoCimLine>>,
      <<"Visual inspection: weld seams of the hub">>,
      <<"CIM-1042 blade component cracking", PhotoCimLine>>,
      <<"Test method: ultrasonic scan of weld", "Document all torque values measured",
        "Visual inspection: weld seams of the hub",
        "Step 1: tighten the bolts firmly now">> }

\* requirement_desc.split()
Split ==
    ( "photo of the weld seam" :> <<"photo", "of", "the", "weld", "seam">>
   @@ "weld seams of the hub" :> <<"weld", "seams", "of", "the", "hub">>
   @@ "ultrasonic scan of weld" :> <<"ultrasonic", "scan", "of", "weld">>
   @@ "torque values measured" :> <<"torque", "values", "measured">>
   @@ "tighten the bolts firmly now" :> <<"tighten", "the", "bolts", "firmly", "now">> )

\* the requirements as the matcher model reads them: the description as its words
SplitDescriptions(requirements) ==
    [i \in DOMAIN requirements |->
        [requirements[i] EXCEPT !.description = Split[requirements[i].description]]]

AssessAnalyzed ==
    /\ mpc = "idle"
    /\ mpc' = "assessed"
    /\ \E cim \in AnalyzedCimTexts, t \in CirTexts, cm \in CirMetadatas :
        \E a \in {analyze_cim_document(cim, 0)} :
        \E mm \in {AnalysisDict(a)} :
        \E rs \in {SplitDescriptions(a.requirements)} :
        \E r \in {assess_compliance(t, cm, rs, mm)} :
           /\ m_args' = [cir_text |-> t, cir_metadata |-> cm,
                         cim_requirements |-> rs, cim_metadata |-> mm]
           /\ evidence_list' = r.evidence_list
           /\ summary' = r.summary
    /\ UNCHANGED <<validatorVars, statusVars, extractorVars, pipelineVars, batchVars, poolVars>>

NextMatcher == AssessCompliance \/ AssessAnalyzed \/ MatcherInit

(***************************************************************************)
(* The analyzer called directly, again and again on one                    *)
(* CIMDocumentAnalyzer: requirement_counter and analysis are its fields.   *)
(***************************************************************************)
\* an analyzer whose numbering starts again in every run
AnalyzeCimDocument_PerRun ==
    /\ ppc = "idle"
    /\ requirement_counter < MaxCounter
    /\ \E t \in CimTexts :
        LET analysis == analyze_cim_document(t, 0)
        IN /\ p_args' = [mode |-> "analyze", text |-> t]
           /\ cim_analysis' = analysis
           /\ requirement_counter' = Len(analysis.requirements)
    /\ UNCHANGED <<ppc, analyze_calls, p_requirements, p_locals, cir_files, idx,
                   batch_results, pair_result, saved, trace, exc>>
    /\ UNCHANGED <<validatorVars, statusVars, matcherVars, extractorVars, batchVars, poolVars>>

AnalyzeCimDocument ==
    /\ ppc = "idle"
    /\ requirement_counter < MaxCounter
    /\ \E t \in CimTexts :
        LET analysis == analyze_cim_document(t, requirement_counter)
        IN /\ p_args' = [mode |-> "analyze", text |-> t]
           /\ cim_analysis' = analysis
           /\ requirement_counter' = requirement_counter + Len(analysis.requirements)
    /\ UNCHANGED <<ppc, analyze_calls, p_requirements, p_locals, cir_files, idx,
                   batch_results, pair_result, saved, trace, exc>>
    /\ UNCHANGED <<validatorVars, statusVars, matcherVars, extractorVars, batchVars, poolVars>>

NextAnalyzer == AnalyzeCimDocument

(***************************************************************************)
(* cir_batch_processor.py                                                  *)
(*                                                                         *)
(* A PDF text is the record of what the processor reads from it:           *)
(*   first_line     the first of its first 20 lines that is not blank and  *)
(*                  longer than 5 characters, stripped ([:100]), or None   *)
(*   part_number    group 1 of the part-number pattern on the lower-cased  *)
(*                  text, or None; drawing_number likewise                 *)
(*   paragraph      the first blank-line separated paragraph longer than   *)
(*                  50 characters, or None                                 *)
(*   strip_len      len(text.strip());  raw_len  len(text)                 *)
(*   contains       the lower-case keywords that occur in the text         *)
(***************************************************************************)
PdfText(first_line, part_number, drawing_number, paragraph, raw_len, strip_len, contains) ==
    [first_line |-> first_line, part_number |-> part_number,
     drawing_number |-> drawing_number, paragraph |-> paragraph,
     raw_len |-> raw_len, strip_len |-> strip_len, contains |-> contains]

\* 10,000 characters, dense with the documentation keywords and approval language
DenseText ==
    PdfText("Rotor Blade LM43 change request", "123-45", "77",
            "Design change of the rotor blade: impact and risk assessed, verification done",
            10000, 10000, key_terms \cup {"approved", "signed", "design"})
ShortText ==
    PdfText("Gearbox oil leak", None, None, None,
            300, 298, {"change", "risk", "material", "process"})
BlankText == PdfText(None, None, None, None, 0, 0, {})

\* re.search(r'CIR[_-]?(\d+)', filename, re.IGNORECASE), else Path(filename).stem
_extract_cir_number ==
    ( "CIR-1234.pdf" :> "CIR-1234" @@ "cir_77.pdf" :> "CIR-77"
   @@ "report.pdf" :> "report" @@ "scan.pdf" :> "scan" @@ "gone.pdf" :> "gone" )

Stem ==
    ( "CIR-1234.pdf" :> "CIR-1234" @@ "cir_77.pdf" :> "cir_77"
   @@ "report.pdf" :> "report" @@ "scan.pdf" :> "scan" @@ "gone.pdf" :> "gone" )

\* a file of the directory: its name, whether it still exists when it is
\* processed, the exception (or None) that stat / extract_cir_pdf raise on it,
\* and what extract_cir_pdf returns: full_text and ocr_confidence
PdfFile(name, exists, raises, full_text, ocr_confidence) ==
    [name |-> name, exists |-> exists, raises |-> raises,
     full_text |-> full_text, ocr_confidence |-> ocr_confidence]

PdfFiles ==
    { PdfFile("CIR-1234.pdf", TRUE, None, DenseText, 95),
      PdfFile("report.pdf", TRUE, None, ShortText, 72),
      PdfFile("scan.pdf", TRUE, None, BlankText, 0),
      PdfFile("cir_77.pdf", TRUE, "Permission denied", DenseText, 95),
      PdfFile("gone.pdf", FALSE, None, BlankText, 0) }

\* create_empty_cir_document, then full_text_content and ocr_confidence assigned
ExtractedDocument(cir_number, full_text, ocr_confidence) ==
    [EmptyDocument EXCEPT
        !.cir_number = cir_number,
        !.ocr_confidence = ocr_confidence,
        !.full_text_content = [strip_len |-> full_text.strip_len,
                               contains |-> full_text.contains]]

\* a processor that takes the description from the first line as well
_populate_technical_data_Description(doc, full_text) ==
    [doc EXCEPT
        !.component_name =
            IF full_text.first_line # None /\ ~Truthy(doc.component_name)
            THEN full_text.first_line ELSE @,
        !.description =
            IF full_text.first_line # None THEN Text(31, 31) ELSE @,
        !.part_number =
            IF full_text.part_number # None THEN full_text.part_number ELSE @,
        !.drawing_number =
            IF full_text.drawing_number # None THEN full_text.drawing_number ELSE @]

_populate_technical_data(doc, full_text) ==
    [doc EXCEPT
        !.component_name =
            IF full_text.first_line # None /\ ~Truthy(doc.component_name)
            THEN full_text.first_line ELSE @,
        !.part_number =
            IF full_text.part_number # None THEN full_text.part_number ELSE @,
        !.drawing_number =
            IF full_text.drawing_number # None THEN full_text.drawing_number ELSE @]

_populate_change_details(doc, full_text) ==
    [doc EXCEPT
        !.change_type =
            IF "design" \in full_text.contains THEN "Design Change"
            ELSE IF "material" \in full_text.contains THEN "Material Change"
            ELSE IF "process" \in full_text.contains THEN "Process Change"
            ELSE @,
        !.reason_for_change =
            IF full_text.paragraph # None /\ ~Truthy(doc.reason_for_change)
            THEN full_text.paragraph ELSE @,
        !.technical_justification =
            IF full_text.paragraph # None /\ ~Truthy(doc.technical_justification)
            THEN full_text.paragraph ELSE @]

\* the return value of process_single_pdf on success, with the validator's
\* state after validate; document_id, the timestamps, the file size and the
\* page count are left out
SuccessResult(pdf_file, cir_number, doc, v) ==
    [result |->
        [status |-> "success", filename |-> pdf_file.name,
         cir_number |-> cir_number,
         ocr_confidence |-> pdf_file.ocr_confidence,
         text_length |-> pdf_file.full_text.raw_len,
         compliance |->
            [status |-> v.validation.status,
             score |-> v.validation.score,
             passed_checks |-> v.validation.passed_checks,
             failed_checks |-> v.validation.failed_checks,
             critical_issues |-> Len(v.validation.critical_issues),
             warnings |-> Len(v.validation.warnings)],
         document |-> [fields |-> doc, compliance |-> v.validation]],
     validated |-> TRUE, cir_doc |-> doc,
     validation_results |-> v.results, validation |-> v.validation]

ErrorResult(pdf_file, message) ==
    [result |-> [status |-> "error", filename |-> pdf_file.name, error |-> message],
     validated |-> FALSE]

PopulatedDocument(pdf_file) ==
    _populate_change_details(
        _populate_technical_data(
            ExtractedDocument(_extract_cir_number[pdf_file.name],
                              pdf_file.full_text, pdf_file.ocr_confidence),
            pdf_file.full_text),
        pdf_file.full_text)

ValidatedResult(pdf_file, doc) ==
    SuccessResult(pdf_file, _extract_cir_number[pdf_file.name], doc, validate(doc))

process_single_pdf(pdf_file) ==
    IF ~pdf_file.exists THEN ErrorResult(pdf_file, "File not found")
    ELSE IF pdf_file.raises # None THEN ErrorResult(pdf_file, pdf_file.raises)
    ELSE ValidatedResult(pdf_file, PopulatedDocument(pdf_file))

(***************************************************************************)
(* get_summary_statistics of the pipeline, on lists of analyze_batch       *)
(* result entries.                                                         *)
(***************************************************************************)
\* r.get(key, default)
DictGet(r, key, default) == IF key \in DOMAIN r THEN r[key] ELSE default

RatAdd(a, b) == Rat(a.num * b.den + b.num * a.den, a.den * b.den)

RECURSIVE SumRat(_, _)
SumRat(rs, key) ==
    IF rs = <<>> THEN Rat(0, 1)
    ELSE RatAdd(DictGet(Head(rs), key, Rat(0, 1)), SumRat(Tail(rs), key))

RECURSIVE SumInt(_, _)
SumInt(rs, key) ==
    IF rs = <<>> THEN 0 ELSE DictGet(Head(rs), key, 0) + SumInt(Tail(rs), key)

\* statistics over every entry, the error entries included
get_summary_statistics_AllResults(results) ==
    LET valid_results == results
        n == Len(valid_results)
        go_count == Len(SelectSeq(valid_results, LAMBDA r : DictGet(r, "go_nogo", None) = "GO"))
        nogo_count == Len(SelectSeq(valid_results,
                                    LAMBDA r : DictGet(r, "go_nogo", None) = "NO-GO"))
        total == SumRat(valid_results, "compliance_score")
    IN IF valid_results = <<>> THEN [error |-> "No valid results"]
       ELSE [total_analyzed |-> n,
             go_count |-> go_count,
             nogo_count |-> nogo_count,
             go_percentage |-> Rat(go_count * 100, n),
             average_compliance_score |-> Rat(total.num, total.den * n),
             total_met_requirements |-> SumInt(valid_results, "met_requirements"),
             total_partial_requirements |-> SumInt(valid_results, "partial_requirements"),
             total_not_met_requirements |-> SumInt(valid_results, "not_met_requirements")]

get_summary_statistics(results) ==
    LET valid_results == SelectSeq(results, LAMBDA r : "error" \notin DOMAIN r)
        n == Len(valid_results)
        go_count == Len(SelectSeq(valid_results, LAMBDA r : DictGet(r, "go_nogo", None) = "GO"))
        nogo_count == Len(SelectSeq(valid_results,
                                    LAMBDA r : DictGet(r, "go_nogo", None) = "NO-GO"))
        total == SumRat(valid_results, "compliance_score")
    IN IF valid_results = <<>> THEN [error |-> "No valid results"]
       ELSE [total_analyzed |-> n,
             go_count |-> go_count,
             nogo_count |-> nogo_count,
             go_percentage |-> Rat(go_count * 100, n),
             average_compliance_score |-> Rat(total.num, total.den * n),
             total_met_requirements |-> SumInt(valid_results, "met_requirements"),
             total_partial_requirements |-> SumInt(valid_results, "partial_requirements"),
             total_not_met_requirements |-> SumInt(valid_results, "not_met_requirements")]

\* the entry analyze_batch appends for a file whose evidence statuses are given
StatEntry(cir_file, statuses) ==
    LET summary_ == _generate_summary([k \in DOMAIN statuses |-> [status |-> statuses[k]]])
    IN [cir_file |-> cir_file,
        go_nogo |-> summary_.go_nogo,
        compliance_score |-> summary_.compliance_score,
        met_requirements |-> summary_.met,
        partial_requirements |-> summary_.partial,
        not_met_requirements |-> summary_.not_met,
        total_requirements |-> summary_.total_requirements]

\* the entry analyze_batch appends in its except branch
StatErrorEntry(cir_file, e) == [cir_file |-> cir_file, error |-> e]

StatEntries ==
    { StatErrorEntry("a.pdf", "'dict' object has no attribute 'requirement_id'"),
      StatEntry("b.pdf", <<>>),
      StatEntry("c.pdf", <<MET, MET>>),
      StatEntry("d.pdf", <<MET, PARTIAL, NOT_MET>>) }

MaxStatResults == 2

NoStatsCall == [called |-> FALSE]

\* called by the caller before it turns to the batch processor
GetSummaryStatistics ==
    /\ bpc = "idle"
    /\ \E results \in SeqsUpTo(StatEntries, MaxStatResults) :
        stats_call' = [called |-> TRUE, results |-> results,
                       statistics |-> get_summary_statistics(results)]
    /\ UNCHANGED <<bpc, pdf_files, bp_idx, bp_results, bp_summary, bp_saved>>
    /\ UNCHANGED <<validatorVars, statusVars, matcherVars, extractorVars, pipelineVars,
                   poolVars>>

MaxPdfFiles == 2

\* a directory: whether it exists and what glob("*.pdf") lists in it
PdfDirectories ==
    {[exists |-> FALSE, files |-> <<>>]}
    \cup {[exists |-> TRUE, files |-> fs] :
            fs \in {f \in SeqsUpTo(PdfFiles, MaxPdfFiles) :
                        \A i, j \in DOMAIN f : i # j => f[i].name # f[j].name}}

EmptySummary ==
    [total_files |-> 0, successfully_processed |-> 0, failed |-> 0,
     go_count |-> 0, nogo_count |-> 0, files |-> <<>>]

\* CIRBatchProcessor.__init__
BatchIdle ==
    /\ bpc = "idle"
    /\ pdf_files = <<>>
    /\ bp_idx = 0
    /\ bp_results = <<>>
    /\ bp_summary = EmptySummary
    /\ bp_saved = {}
    /\ stats_call = NoStatsCall

\* a process_directory that starts every call from a new summary
ProcessDirectory_NewSummary ==
    /\ bpc \in {"idle", "returned"}
    /\ Len(bp_results) <= MaxPdfFiles
    /\ \E d \in PdfDirectories :
        IF ~d.exists
        THEN /\ bpc' = "returned"
             /\ UNCHANGED <<pdf_files, bp_idx, bp_summary>>
        ELSE /\ bpc' = "loop"
             /\ pdf_files' = d.files
             /\ bp_idx' = 1
             /\ bp_summary' = [EmptySummary EXCEPT !.total_files = Len(d.files)]
    /\ stats_call' = NoStatsCall
    /\ UNCHANGED <<bp_results, bp_saved>>
    /\ UNCHANGED <<validatorVars, statusVars, matcherVars, extractorVars, pipelineVars, poolVars>>

\* process_directory up to the loop; on the same processor again and again.
\* The caller keeps no statistics of an earlier get_summary_statistics call.
ProcessDirectory ==
    /\ bpc \in {"idle", "returned"}
    /\ Len(bp_results) <= MaxPdfFiles
    /\ \E d \in PdfDirectories :
        IF ~d.exists
        THEN /\ bpc' = "returned"
             /\ UNCHANGED <<pdf_files, bp_idx, bp_summary>>
        ELSE /\ bpc' = "loop"
             /\ pdf_files' = d.files
             /\ bp_idx' = 1
             /\ bp_summary' = [bp_summary EXCEPT !.total_files = Len(d.files)]
    /\ stats_call' = NoStatsCall
    /\ UNCHANGED <<bp_results, bp_saved>>
    /\ UNCHANGED <<validatorVars, statusVars, matcherVars, extractorVars, pipelineVars, poolVars>>

\* one iteration of the loop: process_single_pdf and the summary update
ProcessSinglePdf ==
    /\ bpc = "loop"
    /\ bp_idx <= Len(pdf_files)
    /\ \E r \in {process_single_pdf(pdf_files[bp_idx])} : \E result \in {r.result} :
          /\ bp_results' = Append(bp_results, result)
          /\ IF result.status = "success"
             THEN /\ bp_summary' =
                        [bp_summary EXCEPT
                            !.successfully_processed = @ + 1,
                            !.go_count = IF result.compliance.status = GO THEN @ + 1 ELSE @,
                            !.nogo_count = IF result.compliance.status = GO THEN @ ELSE @ + 1,
                            !.files = Append(@, [filename |-> result.filename,
                                                 cir_number |-> result.cir_number,
                                                 status |-> result.compliance.status,
                                                 score |-> result.compliance.score])]
                  /\ bp_saved' = bp_saved \cup {Stem[result.filename] \o "_result.json"}
             ELSE /\ bp_summary' = [bp_summary EXCEPT !.failed = @ + 1]
                  /\ bp_saved' = bp_saved
          /\ IF r.validated
             THEN /\ cir_doc' = r.cir_doc
                  /\ validation_results' = r.validation_results
                  /\ validation' = r.validation
             ELSE UNCHANGED <<cir_doc, validation_results, validation>>
    /\ bp_idx' = bp_idx + 1
    /\ UNCHANGED <<bpc, pdf_files, vpc, stats_call>>
    /\ UNCHANGED <<statusVars, matcherVars, extractorVars, pipelineVars, poolVars>>

\* after the loop: _save_results and return self.summary
ProcessDirectoryReturn ==
    /\ bpc = "loop"
    /\ bp_idx > Len(pdf_files)
    /\ bpc' = "returned"
    /\ bp_saved' = bp_saved \cup {"batch_summary.json", "all_results.json", "batch_summary.csv"}
    /\ UNCHANGED <<pdf_files, bp_idx, bp_results, bp_summary, stats_call>>
    /\ UNCHANGED <<validatorVars, statusVars, matcherVars, extractorVars, pipelineVars, poolVars>>

NextBatch ==
    ProcessDirectory \/ ProcessSinglePdf \/ ProcessDirectoryReturn \/ GetSummaryStatistics

(***************************************************************************)
(* Workers of a pool calling assess_compliance on the pipeline's one       *)
(* ComplianceMatcher, one evidence document each.  A step is one statement *)
(* of assess_compliance that touches self.evidence_list; a list is an      *)
(* object, known by its identity (its index in lists).                     *)
(***************************************************************************)
Workers == {1, 2}

NoSummary == _generate_summary(<<>>)

WorkerIdle ==
    [pc |-> "idle", cir_text |-> EmptyCirText, applicable |-> <<>>, i |-> 0,
     summary |-> NoSummary, ret |-> 0]

PoolRequirementLists == {BlockList(1, 0, 0, 1), BlockList(0, 1, 1, 0)}

NoComponents == [affected_components |-> <<>>]

\* CIRCIMAnalysisPipeline.__init__ / ComplianceMatcher.__init__: evidence_list = []
PoolIdle ==
    /\ pool_reqs = <<>>
    /\ wk = [w \in Workers |-> WorkerIdle]
    /\ lists = << <<>> >>
    /\ self_list = 1
    /\ pool_results = <<>>

\* the documents of a batch are handed to the workers
PoolSubmit ==
    /\ \A w \in Workers : wk[w].pc = "idle"
    /\ \E rs \in PoolRequirementLists, docs \in [Workers -> CirTexts] :
        /\ pool_reqs' = rs
        /\ wk' = [w \in Workers |-> [WorkerIdle EXCEPT !.pc = "call", !.cir_text = docs[w]]]
    /\ UNCHANGED <<lists, self_list, pool_results>>
    /\ UNCHANGED <<validatorVars, statusVars, matcherVars, extractorVars, pipelineVars,
                   batchVars>>

\* self.evidence_list = [] and the applicability filter
WorkerEnter(w) ==
    /\ wk[w].pc = "call"
    /\ lists' = Append(lists, <<>>)
    /\ self_list' = Len(lists) + 1
    /\ wk' = [wk EXCEPT ![w].pc = "loop", ![w].i = 1,
                        ![w].applicable =
                            _filter_applicable_requirements(pool_reqs, NoCirMetadata,
                                                            NoComponents)]
    /\ UNCHANGED <<pool_reqs, pool_results>>
    /\ UNCHANGED <<validatorVars, statusVars, matcherVars, extractorVars, pipelineVars,
                   batchVars>>

\* one iteration: evidence = self._assess_requirement(...);
\* self.evidence_list.append(evidence)
WorkerAppend(w) ==
    /\ wk[w].pc = "loop"
    /\ wk[w].i <= Len(wk[w].applicable)
    /\ lists' = [lists EXCEPT ![self_list] =
                    Append(@, _assess_requirement(wk[w].applicable[wk[w].i], wk[w].cir_text))]
    /\ wk' = [wk EXCEPT ![w].i = @ + 1]
    /\ UNCHANGED <<pool_reqs, self_list, pool_results>>
    /\ UNCHANGED <<validatorVars, statusVars, matcherVars, extractorVars, pipelineVars,
                   batchVars>>

\* summary = self._generate_summary(), which reads self.evidence_list
WorkerSummary(w) ==
    /\ wk[w].pc = "loop"
    /\ wk[w].i > Len(wk[w].applicable)
    /\ wk' = [wk EXCEPT ![w].pc = "return", ![w].summary = _generate_summary(lists[self_list])]
    /\ UNCHANGED <<pool_reqs, lists, self_list, pool_results>>
    /\ UNCHANGED <<validatorVars, statusVars, matcherVars, extractorVars, pipelineVars,
                   batchVars>>

\* return self.evidence_list, summary
WorkerReturn(w) ==
    /\ wk[w].pc = "return"
    /\ wk' = [wk EXCEPT ![w].pc = "returned", ![w].ret = self_list]
    /\ UNCHANGED <<pool_reqs, lists, self_list, pool_results>>
    /\ UNCHANGED <<validatorVars, statusVars, matcherVars, extractorVars, pipelineVars,
                   batchVars>>

\* under the lock: the worker's output joins the aggregated results
WorkerAggregate(w) ==
    /\ wk[w].pc = "returned"
    /\ pool_results' = Append(pool_results,
                              [worker |-> w, evidence_list |-> wk[w].ret,
                               summary |-> wk[w].summary])
    /\ wk' = [wk EXCEPT ![w].pc = "done"]
    /\ UNCHANGED <<pool_reqs, lists, self_list>>
    /\ UNCHANGED <<validatorVars, statusVars, matcherVars, extractorVars, pipelineVars,
                   batchVars>>

\* a new pipeline for the next batch
PoolInit ==
    /\ \A w \in Workers : wk[w].pc = "done"
    /\ pool_reqs' = <<>>
    /\ wk' = [w \in Workers |-> WorkerIdle]
    /\ lists' = << <<>> >>
    /\ self_list' = 1
    /\ pool_results' = <<>>
    /\ UNCHANGED <<validatorVars, statusVars, matcherVars, extractorVars, pipelineVars,
                   batchVars>>

WorkerStep ==
    \E w \in Workers :
        \/ WorkerEnter(w)
        \/ WorkerAppend(w)
        \/ WorkerSummary(w)
        \/ WorkerReturn(w)
        \/ WorkerAggregate(w)

NextPool == PoolSubmit \/ WorkerStep \/ PoolInit

(***************************************************************************)
(* Specifications.                                                         *)
(***************************************************************************)
InitSpecValidator ==
    InitValidator /\ StatusIdle /\ MatcherIdle /\ ExtractorIdle /\ PipelineIdle
    /\ BatchIdle /\ PoolIdle
SpecValidator == InitSpecValidator /\ [][NextValidator]_vars

InitSpecStatus ==
    InitValidator /\ InitStatus /\ MatcherIdle /\ ExtractorIdle /\ PipelineIdle
    /\ BatchIdle /\ PoolIdle
SpecStatus == InitSpecStatus /\ [][NextStatus]_vars

InitSpecMatcher ==
    InitValidator /\ StatusIdle /\ MatcherIdle /\ ExtractorIdle /\ PipelineIdle
    /\ BatchIdle /\ PoolIdle
SpecMatcher == InitSpecMatcher /\ [][NextMatcher]_vars

InitSpecExtractor ==
    InitValidator /\ StatusIdle /\ MatcherIdle /\ ExtractorIdle /\ PipelineIdle
    /\ BatchIdle /\ PoolIdle
SpecExtractor == InitSpecExtractor /\ [][NextExtractor]_vars

InitSpecRepeat ==
    InitValidator /\ StatusIdle /\ MatcherIdle /\ ExtractorIdle /\ PipelineIdle
    /\ BatchIdle /\ PoolIdle
SpecRepeat == InitSpecRepeat /\ [][NextRepeat]_vars

InitSpecAnalyzer ==
    InitValidator /\ StatusIdle /\ MatcherIdle /\ ExtractorIdle /\ PipelineIdle
    /\ BatchIdle /\ PoolIdle
SpecAnalyzer == InitSpecAnalyzer /\ [][NextAnalyzer]_vars

InitSpecBatch ==
    InitValidator /\ StatusIdle /\ MatcherIdle /\ ExtractorIdle /\ PipelineIdle
    /\ BatchIdle /\ PoolIdle
SpecBatch == InitSpecBatch /\ [][NextBatch]_vars

InitSpecPool ==
    InitValidator /\ StatusIdle /\ MatcherIdle /\ ExtractorIdle /\ PipelineIdle
    /\ BatchIdle /\ PoolIdle
SpecPool == InitSpecPool /\ [][NextPool]_vars

InitSpecPipeline ==
    InitValidator /\ StatusIdle /\ MatcherIdle /\ ExtractorIdle /\ PipelineIdle
    /\ BatchIdle /\ PoolIdle
SpecPipeline == InitSpecPipeline /\ [][NextPipeline]_vars

(***************************************************************************)
(* Claims on the validator.                                                *)
(***************************************************************************)

\* C1: every verdict returned by validate is GO exactly when its score is at
\* least 85 and it lists no critical issue; it is never PENDING_REVIEW.
C1_GoIffScoreAndNoCritical ==
    vpc = "validated" =>
        /\ validation.status \in {GO, NO_GO}
        /\ validation.status = GO <=>
               (RatGeq(validation.score, 85) /\ validation.critical_issues = <<>>)

\* a verdict with a score of at least 85 and a critical issue: NO-GO
C1_Witness ==
    /\ vpc = "validated"
    /\ RatGeq(validation.score, 85)
    /\ validation.critical_issues # <<>>
    /\ validation.status = NO_GO

\* C2: score = passed_checks / total_checks * 100 exactly, passed + failed =
\* total, 0 <= score <= 100, and passed_checks counts the PASS entries only.
C2_ScoreExact ==
    vpc = "validated" =>
        /\ validation.total_checks = Len(validation.validation_rules_applied)
        /\ validation.total_checks > 0
        /\ validation.passed_checks =
               Cardinality({i \in DOMAIN validation.validation_rules_applied :
                               validation.validation_rules_applied[i].status = "PASS"})
        /\ validation.passed_checks + validation.failed_checks = validation.total_checks
        /\ validation.score.den > 0
        /\ validation.score.num * validation.total_checks =
               validation.passed_checks * 100 * validation.score.den
        /\ RatGeq(validation.score, 0)
        /\ RatLeq(validation.score, 100)

\* a verdict whose only check that is not PASS is a WARN: 15 of 16 passed
C2_Witness ==
    /\ vpc = "validated"
    /\ \E i \in DOMAIN validation.validation_rules_applied :
           validation.validation_rules_applied[i].status = "WARN"
    /\ validation.passed_checks = 15
    /\ validation.failed_checks = 1
    /\ validation.score = Rat(1500, 16)

(***************************************************************************)
(* Claims on the matcher.                                                  *)
(***************************************************************************)
RatEq(a, b) == a.num * b.den = b.num * a.den

\* C3: with found = |evidence_found| and expected = max(1, |expected_evidence|),
\* _determine_status returns Unable to Verify / 30 when found = 0; else Met /
\* 90 + min(10, 5 found) when found/expected >= 0.9; else Partial /
\* 60 + 30 found/expected when found/expected >= 0.5; else Not Met /
\* min(50, 10 + 10 found).
C3_StatusTable ==
    ds_pc = "return" =>
        LET found == Len(ds_evidence_found)
            expected == IF Len(ds_expected_evidence) >= 1
                        THEN Len(ds_expected_evidence) ELSE 1
        IN IF found = 0
           THEN ds_result = [status |-> UNABLE_TO_VERIFY, confidence |-> Rat(30, 1)]
           ELSE IF 10 * found >= 9 * expected
           THEN /\ ds_result.status = MET
                /\ RatEq(ds_result.confidence,
                         Rat(90 + (IF found * 5 < 10 THEN found * 5 ELSE 10), 1))
           ELSE IF 2 * found >= expected
           THEN /\ ds_result.status = PARTIAL
                /\ RatEq(ds_result.confidence, Rat(60 * expected + 30 * found, expected))
           ELSE /\ ds_result.status = NOT_MET
                /\ RatEq(ds_result.confidence,
                         Rat(IF 10 + found * 10 < 50 THEN 10 + found * 10 ELSE 50, 1))

\* found/expected exactly 0.5 (5 of 10): Partial with confidence 75
C3_Witness ==
    /\ ds_pc = "return"
    /\ Len(ds_evidence_found) = 5
    /\ Len(ds_expected_evidence) = 10
    /\ ds_result.status = PARTIAL
    /\ RatEq(ds_result.confidence, Rat(75, 1))

\* the requirements of the last call that pass the applicability filter
C4_ApplicableCount ==
    LET declared == m_args.cim_metadata.affected_components
        ctype == IF "Component Type" \in DOMAIN m_args.cir_metadata
                 THEN m_args.cir_metadata["Component Type"].s ELSE ""
    IN IF declared = <<>>
          \/ \E i \in DOMAIN declared : Lower[declared[i]] \in ComponentsIn[ctype]
       THEN Len(m_args.cim_requirements) ELSE 0

\* C4: total = met + partial + not_met + unable_to_verify = the number of
\* applicable requirements; compliance_score = (met + 0.5 partial) / total * 100
\* (0 when total = 0); go_nogo is GO exactly when the score is >= 85 and
\* not_met = 0, otherwise NO-GO.
C4_SummaryAggregation ==
    mpc = "assessed" =>
        /\ summary.total_requirements =
               summary.met + summary.partial + summary.not_met + summary.unable_to_verify
        /\ summary.total_requirements = C4_ApplicableCount
        /\ summary.total_requirements = Len(evidence_list)
        /\ summary.met = Cardinality({i \in DOMAIN evidence_list : evidence_list[i].status = MET})
        /\ summary.partial =
               Cardinality({i \in DOMAIN evidence_list : evidence_list[i].status = PARTIAL})
        /\ summary.not_met =
               Cardinality({i \in DOMAIN evidence_list : evidence_list[i].status = NOT_MET})
        /\ summary.compliance_score.den > 0
        /\ IF summary.total_requirements = 0
           THEN summary.compliance_score.num = 0
           ELSE summary.compliance_score.num * 2 * summary.total_requirements =
                   (2 * summary.met + summary.partial) * 100 * summary.compliance_score.den
        /\ summary.go_nogo \in {"GO", "NO-GO"}
        /\ summary.go_nogo = "GO" <=>
               (RatGeq(summary.compliance_score, 85) /\ summary.not_met = 0)

\* a GO summary that counts an Unable-to-Verify item and a Partial one
C4_Witness ==
    /\ mpc = "assessed"
    /\ summary.unable_to_verify > 0
    /\ summary.partial > 0
    /\ summary.not_met = 0
    /\ summary.go_nogo = "GO"

(***************************************************************************)
(* Claims on the pipeline.                                                 *)
(***************************************************************************)
\* the evidence files a batch call has to process: the directory, cut by max_files
C5_FilesToProcess ==
    IF p_args.max_files # 0
    THEN SubSeq(p_args.dir, 1, Min(p_args.max_files, Len(p_args.dir)))
    ELSE p_args.dir

\* C5: in analyze_batch, analyze_cim_document is invoked exactly once, before
\* any evidence document is processed, and the call ends with one result entry
\* per evidence document, each carrying the match summary computed from that
\* document and the shared requirement set.
C5_ExtractOnceSummaryEach ==
    p_args.mode = "batch" =>
        /\ batch_results # <<>> => analyze_calls = 1
        /\ ppc \in {"returned", "raised"} =>
              /\ analyze_calls = 1
              /\ ppc = "returned"
              /\ Len(batch_results) = Len(C5_FilesToProcess)
              /\ \A i \in DOMAIN batch_results :
                    /\ {"go_nogo", "compliance_score", "met_requirements",
                        "partial_requirements", "not_met_requirements",
                        "total_requirements"} \subseteq DOMAIN batch_results[i]
                    /\ batch_results[i] =
                          BatchEntry(C5_FilesToProcess[i], p_requirements, cim_analysis)

\* C6: in batch mode an exception raised at any stage is caught: the batch call
\* never ends with an exception, and an error entry carries the message.
C6_BatchNeverFails ==
    p_args.mode = "batch" =>
        /\ ppc # "raised"
        /\ \A i \in DOMAIN batch_results :
              HasAttr(batch_results[i], "error") => batch_results[i].error # ""

\* C7: a pair run whose two texts are available returns a result that holds
\* the evidence records, the match summary and the structural verdict: it ends
\* in Done, not in an error result.
C7_PairResultMerged ==
    (/\ p_args.mode = "pair"
     /\ ppc = "returned"
     /\ p_args.cir.doc.lines # <<>>
     /\ p_args.cim.doc # <<>>) =>
        /\ ~HasAttr(pair_result, "error")
        /\ trace[Len(trace)] = "Done"
        /\ HasAttr(pair_result, "compliance_evidence")
        /\ HasAttr(pair_result, "compliance_summary")
        /\ HasAttr(pair_result, "structural_verdict")

C8_Chain ==
    <<"Start", "RequirementsExtracted", "EvidenceExtracted", "Matched", "Scored", "Done">>

C8_IsPrefix(s, t) == Len(s) <= Len(t) /\ \A i \in DOMAIN s : s[i] = t[i]

\* C8: a pair run enters the stages Start, RequirementsExtracted,
\* EvidenceExtracted, Matched, Scored, Done only in this order and each at most
\* once; no stage runs after a failure, the failure reaches the caller as an
\* error result with the exception's message; a run that has returned is in
\* Done or in error, and one that has not is at a stage before Done, whose
\* step has no other guard.
C8_PairStateMachine ==
    p_args.mode = "pair" =>
        /\ trace # <<>>
        /\ LET n == Len(trace)
           IN IF trace[n] = "error"
              THEN /\ n > 1
                   /\ C8_IsPrefix(SubSeq(trace, 1, n - 1), C8_Chain)
                   /\ trace[n - 1] # "Done"
                   /\ ppc = "returned"
                   /\ exc # ""
                   /\ HasAttr(pair_result, "error")
                   /\ pair_result.error = exc
              ELSE /\ C8_IsPrefix(trace, C8_Chain)
                   /\ exc = ""
                   /\ ppc = IF trace[n] = "Done" THEN "returned" ELSE trace[n]
                   /\ ppc = "returned" => ~HasAttr(pair_result, "error")
        /\ ppc = "returned" => trace[Len(trace)] \in {"Done", "error"}
        /\ ppc # "returned" => ppc \in {C8_Chain[k] : k \in 1..5}

\* a run that went through the stages up to Scored, failed while building its
\* result and returned the message to the caller
C8_Witness ==
    /\ p_args.mode = "pair"
    /\ ppc = "returned"
    /\ trace = <<"Start", "RequirementsExtracted", "EvidenceExtracted", "Matched",
                 "Scored", "error">>
    /\ pair_result.error = "'CIMAnalysis' object has no attribute 'case_id'"

(***************************************************************************)
(* Claims on the extractor.                                                *)
(***************************************************************************)
\* C9: first writer wins across the passes of extract_metadata: a name that a
\* pass has populated keeps its value and its source tag in every later pass.
C9_FirstWriterWins ==
    [][(epc # "idle" /\ epc' # "idle") =>
          \A n \in DOMAIN metadata.all_fields :
              /\ n \in DOMAIN metadata'.all_fields
              /\ metadata'.all_fields[n] = metadata.all_fields[n]
              /\ metadata'.field_sources[n] = metadata.field_sources[n]]_vars

C11_Prefix ==
    ( "Test Method" :> "TEST" @@ "Documentation" :> "DOC"
   @@ "Visual Inspection" :> "VIS" @@ "Procedure" :> "PROC" )

\* the numbers n for which the identifier is <prefix>-<n, three digits>
C11_Numbers(id, prefix) ==
    {n \in 1..(MaxCounter + MaxCimLines) : id = prefix \o "-" \o Pad3(n)}

C11_CategoryIndex(prefix) == CHOOSE k \in DOMAIN Categories : Categories[k] = prefix

\* C11: within one analyze_cim_document run the requirement identifiers are
\* pairwise distinct, each is its category's prefix followed by a number, the
\* numbers increase strictly along the result list, and the list is ordered
\* test-method, documentation, visual-inspection, procedural.
C11_IdsDistinctIncreasing ==
    HasAttr(cim_analysis, "requirements") =>
        LET rs == cim_analysis.requirements
            prefix(i) == C11_Prefix[rs[i].requirement_type]
            number(i) == CHOOSE n \in C11_Numbers(rs[i].requirement_id, prefix(i)) : TRUE
        IN /\ \A i \in DOMAIN rs : C11_Numbers(rs[i].requirement_id, prefix(i)) # {}
           /\ \A i, j \in DOMAIN rs :
                 i < j => /\ rs[i].requirement_id # rs[j].requirement_id
                          /\ number(i) < number(j)
                          /\ C11_CategoryIndex(prefix(i)) <= C11_CategoryIndex(prefix(j))

\* a run on an analyzer that had issued one identifier before: a test method
\* and a procedure step, numbered 2 and 3
C11_Witness ==
    /\ HasAttr(cim_analysis, "requirements")
    /\ Len(cim_analysis.requirements) = 2
    /\ cim_analysis.requirements[1].requirement_id = "TEST-002"
    /\ cim_analysis.requirements[2].requirement_id = "PROC-003"

(***************************************************************************)
(* Claims on the validator's check groups.                                 *)
(***************************************************************************)
\* the three required fields and the title of the issue raised for each
C12_Required ==
    ( "cir_number" :> "Missing CIR Number"
   @@ "component_name" :> "Missing Component Name"
   @@ "technical_justification" :> "Missing Technical Justification" )

C12_Absent(doc) == {f \in DOMAIN C12_Required : ~Truthy(doc[f])}

\* C12: the critical issues of a validation are exactly one per absent required
\* field (case identifier, component name, technical justification), no other
\* check raises one, and a document lacking all three has three critical issues
\* and the verdict NO-GO.
C12_CriticalExactlyRequired ==
    vpc = "validated" =>
        LET crit == validation.critical_issues
            titles == {crit[i].affected_section : i \in DOMAIN crit}
        IN /\ titles = {C12_Required[f] : f \in C12_Absent(cir_doc)}
           /\ Len(crit) = Cardinality(C12_Absent(cir_doc))
           /\ \A i \in DOMAIN validation.warnings :
                 validation.warnings[i].severity # CRITICAL
           /\ \A i \in DOMAIN validation_results :
                 validation_results[i].severity = CRITICAL
                 => validation_results[i].affected_section
                        \in {C12_Required[f] : f \in DOMAIN C12_Required}
           /\ C12_Absent(cir_doc) = DOMAIN C12_Required
                 => Len(crit) = 3 /\ validation.status = NO_GO

\* a document without any of the three, every other check passing
C12_Witness ==
    /\ vpc = "validated"
    /\ C12_Absent(cir_doc) = DOMAIN C12_Required
    /\ Len(validation.critical_issues) = 3
    /\ validation.passed_checks = 13

(***************************************************************************)
(* Claims on the batch processor.                                          *)
(***************************************************************************)
\* the evidence document of the scenario: 10,000 characters, the five
\* documentation keywords, approval language, confidence 95, no extraction errors
C13_IsDense(result) ==
    /\ result.status = "success"
    /\ result.text_length = 10000
    /\ key_terms \subseteq result.document.fields.full_text_content.contains
    /\ approval_keywords \cap result.document.fields.full_text_content.contains # {}
    /\ result.ocr_confidence = 95
    /\ result.document.fields.extraction_errors = <<>>

\* C13: such a document passes every check of the six groups, gets score 100
\* and the verdict GO.
C13_DenseDocumentGo ==
    \A i \in DOMAIN bp_results :
        C13_IsDense(bp_results[i]) =>
            LET c == bp_results[i].document.compliance
            IN /\ \A k \in DOMAIN c.validation_rules_applied :
                     c.validation_rules_applied[k].status = "PASS"
               /\ RatEq(c.score, Rat(100, 1))
               /\ c.status = GO

(***************************************************************************)
(* Claims on the matcher's evidence records.                               *)
(***************************************************************************)
\* the call of the scenario: one visual-inspection requirement that expects a
\* photo, and the evidence text "Photos attached: IMG_1.jpg"
C14_ScenarioA ==
    /\ mpc = "assessed"
    /\ Len(m_args.cim_requirements) = 1
    /\ HasAttr(m_args.cim_requirements[1], "requirement_type")
    /\ m_args.cim_requirements[1].requirement_type = "Visual Inspection"
    /\ m_args.cim_requirements[1].evidence_needed[1] = "Photo"
    /\ DescHas(m_args.cim_requirements[1].description, "photo")
    /\ m_args.cir_text = PhotosAttachedText

\* C14: in that call the requirement's Evidence has status Met and a
\* confidence of at least 90.
C14_PhotoRequirementMet ==
    C14_ScenarioA =>
        /\ Len(evidence_list) = 1
        /\ evidence_list[1].status = MET
        /\ RatGeq(evidence_list[1].confidence_score, 90)

\* the evidence document's "Component Type" contains, case-insensitively, one of
\* the component names the requirements document declared
C15_ComponentDeclared ==
    LET declared == m_args.cim_metadata.affected_components
        ctype == IF "Component Type" \in DOMAIN m_args.cir_metadata
                 THEN m_args.cir_metadata["Component Type"].s ELSE ""
    IN \E i \in DOMAIN declared : Lower[declared[i]] \in ComponentsIn[ctype]

\* C15: assess_compliance scores a requirement iff no affected component was
\* declared or the "Component Type" contains a declared name; each call scores
\* all its requirements, in order, or none; requirements that do not apply get
\* no Evidence record and are not counted in the total.
C15_ScoredIffApplicable ==
    mpc = "assessed" =>
        LET reqs == m_args.cim_requirements
            applies == m_args.cim_metadata.affected_components = <<>>
                       \/ C15_ComponentDeclared
        IN /\ applies =>
                /\ Len(evidence_list) = Len(reqs)
                /\ \A i \in DOMAIN reqs :
                      evidence_list[i].requirement_id = reqs[i].requirement_id
           /\ ~applies => evidence_list = <<>>
           /\ summary.total_requirements = Len(evidence_list)

\* two names declared, the component type contains the second one only, and
\* all three requirements are scored
C15_Witness ==
    /\ mpc = "assessed"
    /\ m_args.cim_metadata.affected_components = <<"Tower", "Gearbox">>
    /\ C15_ComponentDeclared
    /\ Len(m_args.cim_requirements) = 3
    /\ Len(evidence_list) = 3

\* C16: the confidence _determine_status returns, which _assess_requirement
\* stores in the Evidence record, lies within [0, 100] for every number of
\* found items and every number of expected evidence kinds.
C16_ConfidenceInRange ==
    ds_pc = "return" =>
        /\ ds_result.confidence.den > 0
        /\ RatGeq(ds_result.confidence, 0)
        /\ RatLeq(ds_result.confidence, 100)

\* more items found than kinds expected: the cap of the Met branch is reached
C16_Witness ==
    /\ ds_pc = "return"
    /\ Len(ds_evidence_found) = 12
    /\ Len(ds_expected_evidence) = 11
    /\ ds_result.status = MET
    /\ RatEq(ds_result.confidence, Rat(100, 1))

(***************************************************************************)
(* Claims on reused instances.                                             *)
(***************************************************************************)
\* C17: what is computed for one document does not depend on the documents
\* processed earlier on the same instance: between two calls the pipeline's
\* components are as constructed, and the requirements a call works with are
\* those a new pipeline computes from the same requirements text.
C17_NoStateCarriesOver ==
    /\ ppc = "idle" => requirement_counter = 0
    /\ (p_args.mode = "pair" /\ HasAttr(cim_analysis, "requirements")) =>
            cim_analysis.requirements =
                analyze_cim_document(_extract_pdf_text(p_args.cim), 0).requirements

\* what assess_compliance returns for the worker's document when it runs alone
C18_Alone(w) ==
    assess_compliance(wk[w].cir_text, NoCirMetadata, pool_reqs, NoComponents)

\* C18: under every interleaving of the workers, the evidence list and the
\* summary a worker got for its document are those of processing the document
\* alone, when it returns and ever after.
C18_WorkersIsolated ==
    \A w \in Workers :
        wk[w].pc \in {"returned", "done"} =>
            /\ lists[wk[w].ret] = C18_Alone(w).evidence_list
            /\ wk[w].summary = C18_Alone(w).summary

(***************************************************************************)
(* Claims on failed documents and the aggregates.                          *)
(***************************************************************************)
C19_Succeeded == SelectSeq(bp_results, LAMBDA r : r.status = "success")
C19_Failed == SelectSeq(bp_results, LAMBDA r : r.status = "error")

\* the successfully analysed entries handed to get_summary_statistics
C19_Valid == SelectSeq(stats_call.results, LAMBDA r : "error" \notin DOMAIN r)

RECURSIVE C19_Count(_, _, _)
C19_Count(entries, k, key) ==
    IF k = 0 THEN 0 ELSE entries[k][key] + C19_Count(entries, k - 1, key)

RECURSIVE C19_ScoreSum(_, _)
C19_ScoreSum(entries, k) ==
    IF k = 0 THEN Rat(0, 1)
    ELSE RatAdd(entries[k].compliance_score, C19_ScoreSum(entries, k - 1))

\* C19: a document whose processing fails is reported with status "error" and
\* a message and counted in "failed"; the GO/NO-GO counts, the per-file list,
\* the average score and the requirement totals cover the successfully
\* processed documents only, and go_count + nogo_count is their number.
C19_FailedExcluded ==
    /\ \A i \in DOMAIN bp_results :
          /\ bp_results[i].status \in {"success", "error"}
          /\ bp_results[i].status = "error" =>
                /\ "error" \in DOMAIN bp_results[i]
                /\ bp_results[i].error # ""
                /\ "compliance" \notin DOMAIN bp_results[i]
    /\ bp_summary.failed = Len(C19_Failed)
    /\ bp_summary.successfully_processed = Len(C19_Succeeded)
    /\ bp_summary.go_count + bp_summary.nogo_count = Len(C19_Succeeded)
    /\ bp_summary.go_count =
          Len(SelectSeq(C19_Succeeded, LAMBDA r : r.compliance.status = GO))
    /\ Len(bp_summary.files) = Len(C19_Succeeded)
    /\ \A k \in DOMAIN bp_summary.files :
          /\ bp_summary.files[k].filename = C19_Succeeded[k].filename
          /\ bp_summary.files[k].status = C19_Succeeded[k].compliance.status
          /\ bp_summary.files[k].score = C19_Succeeded[k].compliance.score
    /\ stats_call.called =>
          LET st == stats_call.statistics
              n == Len(C19_Valid)
          IN IF n = 0 THEN st = [error |-> "No valid results"]
             ELSE /\ st.total_analyzed = n
                  /\ st.go_count + st.nogo_count = n
                  /\ st.go_count =
                        Len(SelectSeq(C19_Valid, LAMBDA r : r.go_nogo = "GO"))
                  /\ st.total_met_requirements = C19_Count(C19_Valid, n, "met_requirements")
                  /\ st.total_partial_requirements =
                        C19_Count(C19_Valid, n, "partial_requirements")
                  /\ st.total_not_met_requirements =
                        C19_Count(C19_Valid, n, "not_met_requirements")
                  /\ RatEq(Rat(st.average_compliance_score.num * n,
                               st.average_compliance_score.den),
                           C19_ScoreSum(C19_Valid, n))

\* a directory of two files was processed: one failed with a message, one was
\* validated; the summary counts one of each
C19_Witness ==
    /\ bpc = "returned"
    /\ Len(bp_results) = 2
    /\ bp_results[1].status = "error"
    /\ bp_results[1].error = "Permission denied"
    /\ bp_results[2].status = "success"
    /\ bp_summary.failed = 1
    /\ bp_summary.successfully_processed = 1
    /\ Len(bp_summary.files) = 1

(***************************************************************************)
(* Claims on the quality checks.                                           *)
(***************************************************************************)
\* the issues of the last validation with the given title
C20_Issues(title) ==
    SelectSeq(validation_results, LAMBDA i : i.affected_section = title)

\* the status of the named check in the last validation
C20_Status(name) ==
    LET checks == validation.validation_rules_applied
    IN checks[CHOOSE k \in DOMAIN checks : checks[k].check = name].status

\* C20: the confidence check is PASS from 80 on, WARN with one MEDIUM issue
\* from 60 to below 80, FAIL with one HIGH issue below 60; the error check is
\* PASS without extraction errors, else FAIL with one MEDIUM issue; neither
\* raises a critical issue.
C20_QualityChecks ==
    vpc = "validated" =>
        LET c == cir_doc.ocr_confidence
            low == C20_Issues("Low OCR Confidence")
            very_low == C20_Issues("Very Low OCR Confidence")
            errors == C20_Issues("Extraction Errors")
            quality == SelectSeq(validation_results, LAMBDA i : i.category = "Quality")
        IN /\ C20_Status("Text Extraction Quality") =
                 (IF c >= 80 THEN "PASS" ELSE IF c >= 60 THEN "WARN" ELSE "FAIL")
           /\ Len(low) = (IF c >= 60 /\ c < 80 THEN 1 ELSE 0)
           /\ Len(very_low) = (IF c < 60 THEN 1 ELSE 0)
           /\ \A i \in DOMAIN low : low[i].severity = MEDIUM
           /\ \A i \in DOMAIN very_low : very_low[i].severity = HIGH
           /\ C20_Status("No Extraction Errors") =
                 (IF cir_doc.extraction_errors = <<>> THEN "PASS" ELSE "FAIL")
           /\ Len(errors) = (IF cir_doc.extraction_errors = <<>> THEN 0 ELSE 1)
           /\ \A i \in DOMAIN errors : errors[i].severity = MEDIUM
           /\ Len(quality) = Len(low) + Len(very_low) + Len(errors)
           /\ \A i \in DOMAIN quality : quality[i].severity # CRITICAL

\* confidence 60 with one extraction error: a warning and a failure, two
\* MEDIUM issues
C20_Witness ==
    /\ vpc = "validated"
    /\ cir_doc.ocr_confidence = 60
    /\ cir_doc.extraction_errors # <<>>
    /\ C20_Status("Text Extraction Quality") = "WARN"
    /\ C20_Status("No Extraction Errors") = "FAIL"
    /\ Len(C20_Issues("Low OCR Confidence")) = 1
    /\ Len(C20_Issues("Extraction Errors")) = 1

(***************************************************************************)
(* Claims on the documented verdict rules.                                 *)
(***************************************************************************)
\* the approval check of a validation found no approval keyword
C21_ApprovalMissing(doc) ==
    approval_keywords \cap doc.full_text_content.contains = {}

\* C21: a document with verdict GO has a case number, a component, a change
\* type and a technical justification, score >= 85, no critical issue, OCR
\* confidence >= 80 and no extraction errors; a document with missing approval
\* evidence, OCR confidence < 60 or a missing required field is NO-GO.
C21_GoMeetsDocumentedRules ==
    vpc = "validated" =>
        /\ validation.status = GO =>
              /\ Truthy(cir_doc.cir_number)
              /\ Truthy(cir_doc.component_name)
              /\ Truthy(cir_doc.change_type)
              /\ Truthy(cir_doc.technical_justification)
              /\ RatGeq(validation.score, 85)
              /\ validation.critical_issues = <<>>
              /\ cir_doc.ocr_confidence >= 80
              /\ cir_doc.extraction_errors = <<>>
        /\ (\/ C21_ApprovalMissing(cir_doc)
            \/ cir_doc.ocr_confidence < 60
            \/ C12_Absent(cir_doc) # {})
              => validation.status = NO_GO

\* C22: the confidence of every Evidence record lies in the band documented
\* for its status: Met at least 80, Partial from 50 to 79, Not Met below 50.
C22_ConfidenceBands ==
    \A i \in DOMAIN evidence_list :
        LET e == evidence_list[i]
        IN /\ e.status = MET => RatGeq(e.confidence_score, 80)
           /\ e.status = PARTIAL => /\ RatGeq(e.confidence_score, 50)
                                    /\ RatLeq(e.confidence_score, 79)
           /\ e.status = NOT_MET => RatLt(e.confidence_score, 50)

(***************************************************************************)
(* Claims on the analyzer's defaults.                                      *)
(***************************************************************************)
\* a text in which no expression of the analyzer finds anything
C23_NoSignal(text) ==
    /\ \A k \in DOMAIN text :
          /\ \A i \in 1..3 : CasePatternMatch(i, text[k]) = None
          /\ LineComponents(text[k]) = {}
          /\ LineFailureTypes(text[k]) = {}
    /\ \A c \in DOMAIN Categories : CategoryMatches(text, Categories[c]) = <<>>

\* C23: analyze_cim_document raises for no text; for the empty text and for a
\* text without any signal it returns no requirements, empty component,
\* failure-type and side collections, the default title and the default case
\* identifier "UNKNOWN".
C23_DefaultsOnEmptyText ==
    /\ exc = ""
    /\ (p_args.mode = "analyze" /\ C23_NoSignal(p_args.text)) =>
          /\ cim_analysis.requirements = <<>>
          /\ cim_analysis.affected_components = {}
          /\ cim_analysis.failure_types = {}
          /\ cim_analysis.work_instructions = NoDict
          /\ cim_analysis.test_procedures = NoDict
          /\ cim_analysis.acceptance_standards = NoDict
          /\ cim_analysis.visual_inspection_criteria = {}
          /\ cim_analysis.documentation_requirements = {}
          /\ cim_analysis.cim_title = "CIM Case Summary"
          /\ cim_analysis.cim_case_id = "UNKNOWN"

C25_NeverPopulated ==
    {"Component Description", "Specifications Provided", "Implementation Date Set",
     "Change Owner Assigned", "Affected Areas Documented"}

\* C25: every result with status "success" has the verdict NO-GO and a score
\* of at most 68.75: description, specifications, implementation_date,
\* change_owner and affected_areas are as create_empty_cir_document left
\* them, their five checks fail, and go_count is 0 after any sequence of
\* process_directory calls.
C25_SuccessIsNoGo ==
    /\ \A i \in DOMAIN bp_results :
          bp_results[i].status = "success" =>
             LET d == bp_results[i].document.fields
                 c == bp_results[i].document.compliance
             IN /\ d.description = EmptyDocument.description
                /\ d.specifications = EmptyDocument.specifications
                /\ d.implementation_date = EmptyDocument.implementation_date
                /\ d.change_owner = EmptyDocument.change_owner
                /\ d.affected_areas = EmptyDocument.affected_areas
                /\ \A k \in DOMAIN c.validation_rules_applied :
                      c.validation_rules_applied[k].check \in C25_NeverPopulated
                      => c.validation_rules_applied[k].status = "FAIL"
                /\ c.total_checks = 16
                /\ c.failed_checks >= 5
                /\ c.score.num * 4 <= 275 * c.score.den
                /\ c.status = NO_GO
                /\ bp_results[i].compliance.status = NO_GO
    /\ bp_summary.go_count = 0
    /\ \A k \in DOMAIN bp_summary.files : bp_summary.files[k].status = NO_GO

\* two process_directory calls on one processor, the second on the dense
\* document, which reaches the highest score there is: 11 of 16
C25_Witness ==
    /\ bpc = "returned"
    /\ Len(bp_results) = 3
    /\ bp_results[3].status = "success"
    /\ bp_results[3].filename = "CIR-1234.pdf"
    /\ bp_results[3].document.compliance.passed_checks = 11
    /\ bp_results[3].document.compliance.score = Rat(1100, 16)
    /\ bp_summary.total_files = 1
    /\ bp_summary.nogo_count >= 2
    /\ bp_summary.go_count = 0

(***************************************************************************)
(* Claims on the list of checks.                                           *)
(***************************************************************************)
\* the checks of the six groups, in the order validate runs them
C26_CheckNames ==
    << "CIR Number Present", "Component Identified", "Part Number Available",
       "Change Type Specified", "Change Reason Documented", "Technical Justification",
       "Component Description", "Specifications Provided",
       "Implementation Date Set", "Change Owner Assigned", "Affected Areas Documented",
       "Documentation Complete", "Key Documentation Elements",
       "Approval Evidence",
       "Text Extraction Quality", "No Extraction Errors" >>

C26_NotPass ==
    Cardinality({k \in DOMAIN validation.validation_rules_applied :
                    validation.validation_rules_applied[k].status # "PASS"})

C27_IssueTitle(check) ==
    CASE check.check = "CIR Number Present" -> "Missing CIR Number"
      [] check.check = "Component Identified" -> "Missing Component Name"
      [] check.check = "Part Number Available" -> "Missing Part/Drawing Number"
      [] check.check = "Change Type Specified" -> "Missing Change Type"
      [] check.check = "Change Reason Documented" -> "Missing Change Reason"
      [] check.check = "Technical Justification" -> "Missing Technical Justification"
      [] check.check = "Component Description" -> "Insufficient Description"
      [] check.check = "Specifications Provided" -> "Missing Specifications"
      [] check.check = "Implementation Date Set" -> "Missing Implementation Date"
      [] check.check = "Change Owner Assigned" -> "Missing Change Owner"
      [] check.check = "Affected Areas Documented" -> "No Affected Areas Listed"
      [] check.check = "Documentation Complete" -> "Insufficient Documentation"
      [] check.check = "Key Documentation Elements" -> "Missing Key Documentation"
      [] check.check = "Approval Evidence" -> "No Approval Evidence Found"
      [] check.check = "Text Extraction Quality" ->
            IF check.status = "WARN" THEN "Low OCR Confidence"
            ELSE "Very Low OCR Confidence"
      [] check.check = "No Extraction Errors" -> "Extraction Errors"

C27_IssueIds == <<"ISSUE_0001", "ISSUE_0002", "ISSUE_0003", "ISSUE_0004",
                  "ISSUE_0005", "ISSUE_0006", "ISSUE_0007", "ISSUE_0008",
                  "ISSUE_0009", "ISSUE_0010", "ISSUE_0011", "ISSUE_0012",
                  "ISSUE_0013", "ISSUE_0014", "ISSUE_0015", "ISSUE_0016">>

C27_Id(k) == IF k \in DOMAIN C27_IssueIds THEN C27_IssueIds[k] ELSE ""

\* the issues of one validate call against its checks
C27_CallOk(v, issues) ==
    LET notPass == SelectSeq(v.validation_rules_applied, LAMBDA c : c.status # "PASS")
    IN /\ Len(issues) = Len(notPass)
       /\ \A k \in DOMAIN issues :
             /\ issues[k].affected_section = C27_IssueTitle(notPass[k])
             /\ issues[k].issue_id = C27_Id(k)
       /\ Len(v.critical_issues) + Len(v.warnings) = v.failed_checks
       /\ v.critical_issues = SelectSeq(issues, LAMBDA i : i.severity = CRITICAL)
       /\ v.warnings = SelectSeq(issues, LAMBDA i : i.severity # CRITICAL)

\* what validation_results held when the call that filed v returned: the
\* critical issues and the warnings, put back in the order of their ids
C27_Issues(v) ==
    LET all == v.critical_issues \o v.warnings
    IN [k \in 1..Len(all) |->
           IF \E i \in DOMAIN all : all[i].issue_id = C27_Id(k)
           THEN CHOOSE i \in {all[j] : j \in DOMAIN all} : i.issue_id = C27_Id(k)
           ELSE all[k]]

\* C27: in every validate call each check that is not PASS appends exactly
\* one issue and each PASS none, so critical issues plus warnings number
\* failed_checks and partition the issues of the call; the issue ids are
\* ISSUE_0001..ISSUE_n in check order, starting at 1 again in every call on
\* the validator that the batch processor uses for all its documents.
C27_OneIssuePerFailedCheck ==
    /\ \A i \in DOMAIN bp_results :
          bp_results[i].status = "success" =>
              C27_CallOk(bp_results[i].document.compliance,
                         C27_Issues(bp_results[i].document.compliance))
    /\ validation # PendingValidation => C27_CallOk(validation, validation_results)

\* the processor's validator on its second document, after it filed issues
\* for the first: a warning for confidence 72 among the issues, ids from 1
C27_Witness ==
    /\ Len(bp_results) >= 2
    /\ bp_results[1].status = "success"
    /\ bp_results[1].document.compliance.failed_checks >= 5
    /\ bp_results[2].status = "success"
    /\ bp_results[2].filename = "report.pdf"
    /\ validation = bp_results[2].document.compliance
    /\ validation_results[1].issue_id = "ISSUE_0001"
    /\ \E k \in DOMAIN validation_results :
          validation_results[k].affected_section = "Low OCR Confidence"
    /\ validation.critical_issues # <<>>
    /\ Len(validation_results) = validation.failed_checks

(***************************************************************************)
(* Claims on the counters of the batch summary.                            *)
(***************************************************************************)
C28_Handled == bp_summary.successfully_processed + bp_summary.failed

\* the counters against the results appended so far, over all calls
C28_Counters ==
    /\ bp_summary.go_count + bp_summary.nogo_count = bp_summary.successfully_processed
    /\ bp_summary.successfully_processed = Len(bp_summary.files)
    /\ C28_Handled = Len(bp_results)
    /\ bp_summary.successfully_processed =
          Len(SelectSeq(bp_results, LAMBDA r : r.status = "success"))
    /\ bpc = "returned" =>
          /\ bp_summary.total_files = Len(pdf_files)
          /\ (C28_Handled = bp_summary.total_files) <=> (Len(bp_results) = Len(pdf_files))

\* C28: after any sequence of process_directory calls on one processor,
\* go_count + nogo_count = successfully_processed = the number of entries of
\* summary["files"], and successfully_processed + failed = the number of
\* files handled over all calls; total_files is that of the last call, so
\* successfully_processed + failed = total_files when no earlier call handled
\* a file and not otherwise.  A call on a directory that does not exist
\* changes no counter.
C28_CountersAccumulate ==
    /\ []C28_Counters
    /\ [][(bpc \in {"idle", "returned"} /\ bpc' = "returned")
            => (bp_summary' = bp_summary /\ bp_results' = bp_results)]_vars

\* the second call has returned: three files handled in all, one of them in
\* the last call, one of the three failed
C28_Witness ==
    /\ bpc = "returned"
    /\ Len(bp_results) = 3
    /\ bp_summary.total_files = 1
    /\ bp_summary.successfully_processed = 2
    /\ bp_summary.failed = 1
    /\ C28_Handled # bp_summary.total_files

(***************************************************************************)
(* Claims on the requirement counter.                                      *)
(***************************************************************************)
\* the number in a requirement identifier (0 if it has none)
C29_Number(r) ==
    LET ns == C11_Numbers(r.requirement_id, C11_Prefix[r.requirement_type])
    IN IF ns = {} THEN 0 ELSE CHOOSE n \in ns : TRUE

C29_NumbersOf(analysis) ==
    IF HasAttr(analysis, "requirements")
    THEN {C29_Number(analysis.requirements[i]) : i \in DOMAIN analysis.requirements}
    ELSE {}

C29_IdsOf(analysis) ==
    IF HasAttr(analysis, "requirements")
    THEN {analysis.requirements[i].requirement_id : i \in DOMAIN analysis.requirements}
    ELSE {}

\* C29: the counter of a CIMDocumentAnalyzer is never reset: over the
\* analyze_cim_document runs on one analyzer the numbers of the identifiers
\* increase strictly and none is used twice, the first number of a run is one
\* more than the last number issued before, and the same text analysed again
\* gets other identifiers than in the run before.
C29_CounterNeverReset ==
    /\ [](\A n \in C29_NumbersOf(cim_analysis) : 1 <= n /\ n <= requirement_counter)
    /\ [](C29_NumbersOf(cim_analysis) # {} =>
              requirement_counter \in C29_NumbersOf(cim_analysis))
    /\ [][ /\ requirement_counter' >= requirement_counter
           /\ LET new == cim_analysis'.requirements
              IN /\ \A i \in DOMAIN new :
                       C29_Number(new[i]) = requirement_counter + i
                 /\ requirement_counter' = requirement_counter + Len(new)
                 /\ C29_IdsOf(cim_analysis') \cap C29_IdsOf(cim_analysis) = {}
                 /\ (p_args.mode = "analyze" /\ p_args'.text = p_args.text /\ new # <<>>)
                       => /\ Len(new) = Len(cim_analysis.requirements)
                          /\ \A i \in DOMAIN new :
                                new[i].requirement_id
                                    # cim_analysis.requirements[i].requirement_id ]_vars

\* the one-line text analysed for the third time on one analyzer
C29_Witness ==
    /\ p_args.mode = "analyze"
    /\ p_args.text = <<"Visual inspection: weld seams of the hub">>
    /\ requirement_counter = 3
    /\ Len(cim_analysis.requirements) = 1
    /\ cim_analysis.requirements[1].requirement_id = "VIS-003"

(***************************************************************************)
(* Claims on the matcher's outcome for the analyzer's requirements.        *)
(***************************************************************************)
\* the call was made on requirements that analyze_cim_document produced
C30_FromAnalyzer ==
    /\ mpc = "assessed"
    /\ m_args.cim_requirements # <<>>
    /\ \A i \in DOMAIN m_args.cim_requirements :
          HasAttr(m_args.cim_requirements[i], "source_document")

\* C30: every requirement of the analyzer expects exactly 3 kinds of
\* evidence, and the status and confidence of its Evidence record follow
\* from the number of found items alone: 0 Unable to Verify / 30, 1 Not Met /
\* 20, 2 Partial / 80, 3 or more Met / 100.
C30_OutcomeByFoundCount ==
    C30_FromAnalyzer =>
        /\ \A i \in DOMAIN m_args.cim_requirements :
              Len(m_args.cim_requirements[i].evidence_needed) = 3
        /\ \A i \in DOMAIN evidence_list :
              LET e == evidence_list[i]
                  found == Len(e.evidence_found)
              IN /\ Len(e.expected_evidence) = 3
                 /\ found = 0 => e.status = UNABLE_TO_VERIFY
                                 /\ RatEq(e.confidence_score, Rat(30, 1))
                 /\ found = 1 => e.status = NOT_MET
                                 /\ RatEq(e.confidence_score, Rat(20, 1))
                 /\ found = 2 => e.status = PARTIAL
                                 /\ RatEq(e.confidence_score, Rat(80, 1))
                 /\ found >= 3 => e.status = MET
                                  /\ RatEq(e.confidence_score, Rat(100, 1))

\* one call on requirements of the four categories with one, no, two and no
\* items found
C30_Witness ==
    /\ C30_FromAnalyzer
    /\ Len(evidence_list) = 4
    /\ evidence_list[1].requirement_id = "TEST-001"
    /\ evidence_list[1].status = NOT_MET
    /\ evidence_list[2].requirement_id = "DOC-002"
    /\ evidence_list[2].status = UNABLE_TO_VERIFY
    /\ evidence_list[3].requirement_id = "VIS-003"
    /\ evidence_list[3].status = PARTIAL
    /\ evidence_list[4].requirement_id = "PROC-004"
    /\ evidence_list[4].expected_evidence = <<"Completion log", "Signature", "Timestamp">>

====
